---------------------------- MODULE Spec2Model ----------------------------
(***************************************************************************)
(* A model of the constraint manager (lib/Expr/Constraints.cpp), of the    *)
(* expression layer it rests on (Expr.h) and of the independent solver     *)
(* (IndependentSolver.cpp).                                                *)
(*                                                                         *)
(* Expressions are values: structural equality of the records below is the *)
(* structural equality Expr::compare decides.  Every expression is a       *)
(* record with the same six fields, so that any two can be compared.       *)
(***************************************************************************)
EXTENDS Integers, Sequences, FiniteSets, Bags, TLC

(***************************************************************************)
(* Bounds of the model.                                                    *)
(***************************************************************************)
\* number of public calls made on one constraint manager
MaxCalls == 3

(***************************************************************************)
(* Widths and arrays.                                                      *)
(***************************************************************************)
\* Expr::Bool
Bool == 1
\* Array::range and Array::domain of the arrays of the model: elements and
\* indices are two bits wide, so a "byte" ranges over 0..3
RangeWidth == 2
\* Array::size of every array of the model
ArraySize == 2
\* the byte arrays (Array descriptors, identified by name)
Arrays == {"a", "b"}

RECURSIVE Pow2(_)
Pow2(w) == IF w = 0 THEN 1 ELSE 2 * Pow2(w - 1)

\* the values of a bit-vector of width w
Values(w) == 0 .. (Pow2(w) - 1)

\* bitwise and / not of two values of width w (llvm::APInt arithmetic)
RECURSIVE BitAnd(_, _, _)
BitAnd(w, x, y) ==
  IF w = 0 THEN 0
  ELSE ((x % 2) * (y % 2)) + 2 * BitAnd(w - 1, x \div 2, y \div 2)

BitNot(w, x) == (Pow2(w) - 1) - x

(***************************************************************************)
(* Expression nodes (class Expr and its subclasses).                       *)
(***************************************************************************)
MkExpr(k, w, v, arr, ks, ul) ==
  [kind |-> k, width |-> w, value |-> v, array |-> arr, kids |-> ks,
   updates |-> ul]

\* ConstantExpr::alloc(v, w)
ConstantExpr_alloc(v, w) == MkExpr("Constant", w, v, "", <<>>, <<>>)

\* UpdateNode: one write array[index] := value; an update list is the
\* sequence of its nodes, most recent first (head first, then head->next ...)
UpdateNode(index, value) == [index |-> index, value |-> value]

\* ReadExpr::alloc(updates, index); updates.root is the array name
ReadExpr_alloc(root, ul, index) ==
  MkExpr("Read", RangeWidth, 0, root, <<index>>, ul)

NotExpr_alloc(e) == MkExpr("Not", e.width, 0, "", <<e>>, <<>>)
AndExpr_alloc(l, r) == MkExpr("And", l.width, 0, "", <<l, r>>, <<>>)
EqExpr_alloc(l, r) == MkExpr("Eq", Bool, 0, "", <<l, r>>, <<>>)
UltExpr_alloc(l, r) == MkExpr("Ult", Bool, 0, "", <<l, r>>, <<>>)

isConstant(e) == e.kind = "Constant"

\* Expr::isTrue
isTrue(e) == isConstant(e) /\ e.width = Bool /\ e.value = 1

\* a faulty test that takes no expression for the constant false
isFalse_Never(e) == FALSE

\* Expr::isFalse
isFalse(e) == isConstant(e) /\ e.width = Bool /\ e.value = 0

TrueExpr == ConstantExpr_alloc(1, Bool)
FalseExpr == ConstantExpr_alloc(0, Bool)

(***************************************************************************)
(* Constructors (Expr.cpp is not part of the sources at hand: the folding  *)
(* rules are the ones section 4.1 of the specification lists).             *)
(***************************************************************************)
\* NotExpr::create: constants fold, Not(Not(x)) is x
NotExpr_create(e) ==
  IF isConstant(e) THEN ConstantExpr_alloc(BitNot(e.width, e.value), e.width)
  ELSE IF e.kind = "Not" THEN e.kids[1]
  ELSE NotExpr_alloc(e)

\* AndExpr::create: constants fold, the constant goes left, x & 0 = 0,
\* x & 1..1 = x, x & x = x
RECURSIVE AndExpr_create(_, _)
AndExpr_create(l, r) ==
  IF isConstant(l) /\ isConstant(r)
    THEN ConstantExpr_alloc(BitAnd(l.width, l.value, r.value), l.width)
  ELSE IF isConstant(r) THEN AndExpr_create(r, l)
  ELSE IF isConstant(l) /\ l.value = 0 THEN l
  ELSE IF isConstant(l) /\ l.value = Pow2(l.width) - 1 THEN r
  ELSE IF l = r THEN l
  ELSE AndExpr_alloc(l, r)

\* EqExpr::create: x == x is true, constants fold, the constant goes left,
\* a boolean Eq with constant true is its operand, with constant false its
\* negation
RECURSIVE EqExpr_create(_, _)
EqExpr_create(l, r) ==
  IF l = r THEN TrueExpr
  ELSE IF isConstant(l) /\ isConstant(r) THEN FalseExpr
  ELSE IF isConstant(r) THEN EqExpr_create(r, l)
  ELSE IF isConstant(l) /\ l.width = Bool
    THEN (IF l.value = 1 THEN r ELSE NotExpr_create(r))
  ELSE EqExpr_alloc(l, r)

\* UltExpr::create: constants fold
UltExpr_create(l, r) ==
  IF isConstant(l) /\ isConstant(r)
    THEN ConstantExpr_alloc(IF l.value < r.value THEN 1 ELSE 0, Bool)
  ELSE UltExpr_alloc(l, r)

\* ReadExpr::create: walk the update list from the most recent write; a
\* write at a constant index equal to the read index yields the stored
\* value, a write that provably misses is skipped, and a write whose
\* comparison does not fold stops the walk (the read stays a read over the
\* rest of the list, ReadExpr::updates)
RECURSIVE ReadExpr_create(_, _, _)
ReadExpr_create(root, ul, index) ==
  IF ul = <<>> THEN ReadExpr_alloc(root, ul, index)
  ELSE LET cond == EqExpr_create(Head(ul).index, index)
       IN IF isTrue(cond) THEN Head(ul).value
          ELSE IF isFalse(cond) THEN ReadExpr_create(root, Tail(ul), index)
          ELSE ReadExpr_alloc(root, ul, index)

\* Expr::createIsZero(e): e == 0
createIsZero(e) == EqExpr_create(e, ConstantExpr_alloc(0, e.width))

\* Expr::rebuild(kids) of each kind (ReadExpr::rebuild(ul, index) for reads):
\* the constructor of the kind applied to the new kids
rebuild(e, ks, ul) ==
  CASE e.kind = "Read" -> ReadExpr_create(e.array, ul, ks[1])
    [] e.kind = "Not" -> NotExpr_create(ks[1])
    [] e.kind = "And" -> AndExpr_create(ks[1], ks[2])
    [] e.kind = "Eq" -> EqExpr_create(ks[1], ks[2])
    [] e.kind = "Ult" -> UltExpr_create(ks[1], ks[2])
    [] OTHER -> e

(***************************************************************************)
(* Meaning of an expression under a total byte assignment A, a function    *)
(* from <<array, index>> to a byte: what the concrete solver decides.      *)
(***************************************************************************)
Cells == Arrays \X (0 .. (ArraySize - 1))
Assignments == [Cells -> Values(RangeWidth)]

RECURSIVE Eval(_, _)
RECURSIVE EvalRead(_, _, _, _)
EvalRead(root, ul, idx, A) ==
  IF ul = <<>> THEN (IF idx < ArraySize THEN A[<<root, idx>>] ELSE 0)
  ELSE IF Eval(Head(ul).index, A) = idx THEN Eval(Head(ul).value, A)
  ELSE EvalRead(root, Tail(ul), idx, A)

Eval(e, A) ==
  CASE e.kind = "Constant" -> e.value
    [] e.kind = "Read" -> EvalRead(e.array, e.updates, Eval(e.kids[1], A), A)
    [] e.kind = "Not" -> BitNot(e.width, Eval(e.kids[1], A))
    [] e.kind = "And" ->
         BitAnd(e.width, Eval(e.kids[1], A), Eval(e.kids[2], A))
    [] e.kind = "Eq" ->
         IF Eval(e.kids[1], A) = Eval(e.kids[2], A) THEN 1 ELSE 0
    [] e.kind = "Ult" ->
         IF Eval(e.kids[1], A) < Eval(e.kids[2], A) THEN 1 ELSE 0

(***************************************************************************)
(* ExprVisitor and the replacing visitors of Constraints.cpp.              *)
(*                                                                         *)
(* A visitor is described by a record: single = TRUE is ExprReplaceVisitor *)
(* (src, dst), single = FALSE is ExprReplaceVisitor2 (replacements).  The  *)
(* two update-node maps are threaded through the traversal in a record     *)
(* c = [visitedUN, replacedUN]; a visit returns the new expression and the *)
(* maps as it left them.                                                   *)
(***************************************************************************)
ExprReplaceVisitor(src, dst) ==
  [single |-> TRUE, src |-> src, dst |-> dst, replacements |-> <<>>]

ExprReplaceVisitor2(replacements) ==
  [single |-> FALSE, src |-> FalseExpr, dst |-> FalseExpr,
   replacements |-> replacements]

\* a visitor constructed with ExprVisitor(false)
recursive_Off == FALSE

\* ExprVisitor(true) in ExprReplaceVisitorBase's constructor: a rebuilt
\* expression is visited again
recursive == TRUE

\* ExprReplaceVisitor::visitExpr (before the children): TRUE iff changeTo(dst)
visitExpr(V, e) == V.single /\ e = V.src

\* ExprReplaceVisitor::visitExprPost, ExprReplaceVisitor2::visitExprPost:
\* the expression e is changed to, or e itself for doChildren
visitExprPost(V, e) ==
  IF V.single THEN (IF e = V.src THEN V.dst ELSE e)
  ELSE IF e \in DOMAIN V.replacements THEN V.replacements[e] ELSE e

RECURSIVE visit(_, _, _)
RECURSIVE visitKids(_, _, _, _)
RECURSIVE visitUpdateNode(_, _, _)

\* ExprReplaceVisitorBase::visitUpdateNode; un is a non-empty update list
\* (the node and its next chain)
visitUpdateNode(V, c, un) ==
  IF un \in DOMAIN c.visitedUN
    THEN [un |-> c.visitedUN[un], c |-> c]
  ELSE
    \* nx: the visited next chain, ri: the visited index, rv: the visited
    \* value, each with the maps as the visit left them
    LET withValue(nx, ri, rv) ==
          IF ri.e # un[1].index \/ rv.e # un[1].value \/ nx.un # Tail(un)
            THEN LET newUN == <<UpdateNode(ri.e, rv.e)>> \o nx.un
                 IN [un |-> newUN,
                     c |-> [visitedUN |-> (un :> newUN) @@ rv.c.visitedUN,
                            replacedUN |-> rv.c.replacedUN \cup {newUN}]]
            ELSE [un |-> un,
                  c |-> [rv.c EXCEPT
                           !.visitedUN = (un :> un) @@ rv.c.visitedUN]]
        withIndex(nx, ri) == withValue(nx, ri, visit(V, ri.c, un[1].value))
        withNext(nx) == withIndex(nx, visit(V, nx.c, un[1].index))
    IN withNext(IF Tail(un) # <<>> THEN visitUpdateNode(V, c, Tail(un))
                ELSE [un |-> <<>>, c |-> c])

\* the children of e from the i-th on, visited in order
visitKids(V, c, ks, i) ==
  IF i > Len(ks) THEN [ks |-> ks, c |-> c]
  ELSE LET rest(r) == visitKids(V, r.c, [ks EXCEPT ![i] = r.e], i + 1)
       IN rest(visit(V, c, ks[i]))

\* ExprVisitor::visit / visitActual
visit(V, c, e) ==
  IF isConstant(e) THEN [e |-> e, c |-> c]
  ELSE IF visitExpr(V, e) THEN [e |-> V.dst, c |-> c]
  ELSE
    \* rk: the visited children, ru: the visited update list, rb: the
    \* expression rebuilt from them (visited again when recursive)
    LET post(rb) ==
          IF isConstant(rb.e) THEN rb
          ELSE [e |-> visitExprPost(V, rb.e), c |-> rb.c]
        rebuilt(rk, ru) ==
          IF rk.ks = e.kids /\ ru.un = e.updates THEN [e |-> e, c |-> ru.c]
          ELSE IF recursive THEN visit(V, ru.c, rebuild(e, rk.ks, ru.un))
          ELSE [e |-> rebuild(e, rk.ks, ru.un), c |-> ru.c]
        withKids(rk) ==
          rebuilt(rk, IF e.kind = "Read" /\ e.updates # <<>>
                        THEN visitUpdateNode(V, rk.c, e.updates)
                        ELSE [un |-> e.updates, c |-> rk.c])
    IN post(withKids(visitKids(V, c, e.kids, 1)))

(***************************************************************************)
(* IndependentElementSet: the footprint of a set of expressions.           *)
(* elements maps an array to the set of the constant indices read,         *)
(* wholeObjects holds the arrays read at a symbolic index, exprs is the    *)
(* list of the expressions the set stands for.  exprs is kept as a bag:    *)
(* the order of the list is the order in which containers of pointers are  *)
(* iterated, and nothing reads it but loops over all its elements.         *)
(***************************************************************************)
\* findReads(e, visitUpdates = true): the <<array, index>> of every read
RECURSIVE findReads(_)
RECURSIVE findReadsUL(_)
findReadsUL(ul) ==
  IF ul = <<>> THEN {}
  ELSE findReads(Head(ul).index) \cup findReads(Head(ul).value)
       \cup findReadsUL(Tail(ul))

findReads(e) ==
  (IF e.kind = "Read" THEN {<<e.array, e.kids[1]>>} \cup findReadsUL(e.updates)
   ELSE {})
  \cup UNION {findReads(e.kids[i]) : i \in 1 .. Len(e.kids)}

\* IndependentElementSet(e)
IndependentElementSet(e) ==
  LET reads == findReads(e)
      whole == {rd[1] : rd \in {x \in reads : ~isConstant(x[2])}}
      conc == {rd[1] : rd \in reads} \ whole
  IN [elements |->
        [arr \in conc |-> {rd[2].value : rd \in {x \in reads : x[1] = arr}}],
      wholeObjects |-> whole,
      exprs |-> SetToBag({e})]

\* the empty set (default constructor)
EmptyIndependentElementSet ==
  [elements |-> <<>>, wholeObjects |-> {}, exprs |-> EmptyBag]

\* IndependentElementSet::intersects
intersects(a, b) ==
  \/ \E arr \in a.wholeObjects :
       arr \in b.wholeObjects \/ arr \in DOMAIN b.elements
  \/ \E arr \in DOMAIN a.elements :
       \/ arr \in b.wholeObjects
       \/ arr \in DOMAIN b.elements
          /\ a.elements[arr] \cap b.elements[arr] # {}

\* IndependentElementSet::add: a after a.add(b)
add(a, b) ==
  LET whole == a.wholeObjects \cup b.wholeObjects
      dom == (DOMAIN a.elements \cup DOMAIN b.elements) \ whole
  IN [elements |->
        [arr \in dom |->
           (IF arr \in DOMAIN a.elements THEN a.elements[arr] ELSE {})
           \cup (IF arr \in DOMAIN b.elements THEN b.elements[arr] ELSE {})],
      wholeObjects |-> whole,
      exprs |-> a.exprs (+) b.exprs]

(***************************************************************************)
(* ConstraintManager.                                                      *)
(*                                                                         *)
(* The state of one manager is the record cm of its members.  A pointer to *)
(* an IndependentElementSet is modelled by the set it points to (live      *)
(* factors never have equal contents: they would intersect); an in-place   *)
(* change of a factor therefore changes every representative entry that    *)
(* points to it.  status is "ok" while the process runs, "assert" after a  *)
(* failed assertion and "segv" after a null pointer was dereferenced.      *)
(***************************************************************************)
VARIABLES
  RewriteEqualities,     \* command line option -rewrite-equalities
  UseIndependentSolver,  \* command line option -use-independent-solver
  cm,                    \* the members of the constraint manager
  calls,                 \* number of public calls made so far
  last,                  \* the last public call: operation, argument, result
  copy,                  \* the manager of the branched state, once made
  compareCache,          \* the comparison semaphore and the caches it guards
  ex                     \* the members of the Executor and its execution states

vars ==
  <<RewriteEqualities, UseIndependentSolver, cm, calls, last, copy,
    compareCache, ex>>

\* a null IndependentElementSet pointer
nullptr ==
  [elements |-> <<>>, wholeObjects |-> {"nullptr"}, exprs |-> EmptyBag]

\* ConstraintManager(): every member empty
EmptyConstraintManager ==
  [constraints |-> <<>>, old |-> <<>>, addedConstraints |-> <<>>,
   deleteConstraints |-> <<>>, equalities |-> <<>>, factors |-> {},
   representative |-> <<>>, visitedUN |-> <<>>, replacedUN |-> {},
   status |-> "ok"]

UNMaps(m) == [visitedUN |-> m.visitedUN, replacedUN |-> m.replacedUN]

withUNMaps(m, c) ==
  [m EXCEPT !.visitedUN = c.visitedUN, !.replacedUN = c.replacedUN]

SeqToSet(q) == {q[i] : i \in 1 .. Len(q)}

\* ConstraintManager::simplifyExpr: the simplified expression and the
\* manager (simplifyExpr is const, but the two update-node maps it hands to
\* the visitor are members)
simplifyExpr(m, e) ==
  IF isConstant(e) THEN [e |-> e, cm |-> m]
  ELSE LET visited(r) == [e |-> r.e, cm |-> withUNMaps(m, r.c)]
       IN visited(visit(ExprReplaceVisitor2(m.equalities), UNMaps(m), e))

RECURSIVE addConstraintInternal(_, _)
RECURSIVE rewriteLoop(_, _, _, _, _)

\* the loop of ConstraintManager::rewriteConstraints over the constraints
\* swapped out of the manager (list), from the i-th on
rewriteLoop(m, V, list, i, changed) ==
  IF i > Len(list) \/ m.status # "ok" THEN [cm |-> m, changed |-> changed]
  ELSE
    \* ce: the constraint, e: ce as the visitor rewrote it, m1: the manager
    \* with the maps as the visit left them
    LET ce == list[i]
        rewritten(e, m1) ==
          rewriteLoop(IF e # ce THEN addConstraintInternal(m1, e).cm
                      ELSE [m1 EXCEPT !.constraints = Append(@, ce)],
                      V, list, i + 1, e # ce \/ changed)
        visited(r) == rewritten(r.e, withUNMaps(m, r.c))
    IN visited(visit(V, UNMaps(m), ce))

\* a faulty rewrite that loses the constraints it swapped out
rewriteConstraints_Lose(m, V) ==
  [cm |-> [m EXCEPT !.old = IF @ = <<>> THEN m.constraints ELSE @,
                    !.constraints = <<>>],
   changed |-> TRUE]

\* ConstraintManager::rewriteConstraints
rewriteConstraints(m, V) ==
  rewriteLoop([m EXCEPT !.old = IF @ = <<>> THEN m.constraints ELSE @,
                         !.constraints = <<>>],
              V, m.constraints, 1, FALSE)

\* a faulty push that does not queue e for the factor update
pushConstraint_NotQueued(m, e) ==
  [m EXCEPT !.constraints = Append(@, e)]

\* constraints.push_back(e); addedConstraints.push_back(e)
pushConstraint(m, e) ==
  [m EXCEPT !.constraints = Append(@, e), !.addedConstraints = Append(@, e)]

\* ConstraintManager::addConstraintInternal
addConstraintInternal(m, e) ==
  IF m.status # "ok" THEN [cm |-> m, changed |-> FALSE]
  ELSE IF e \in DOMAIN m.representative THEN [cm |-> m, changed |-> FALSE]
  ELSE
    CASE e.kind = "Constant" ->
           \* assert(isTrue && "attempt to add invalid (false) constraint")
           IF isTrue(e) THEN [cm |-> m, changed |-> FALSE]
           ELSE [cm |-> [m EXCEPT !.status = "assert"], changed |-> FALSE]
      [] e.kind = "And" ->
           LET right(r1, r2) ==
                 [cm |-> r2.cm, changed |-> r1.changed \/ r2.changed]
               left(r1) == right(r1, addConstraintInternal(r1.cm, e.kids[2]))
           IN left(addConstraintInternal(m, e.kids[1]))
      [] e.kind = "Eq" ->
           IF RewriteEqualities /\ isConstant(e.kids[1])
              /\ e.kids[2].kind # "Eq"
             THEN LET rewritten(rr) ==
                        IF rr.cm.status # "ok" THEN rr
                        ELSE [cm |-> pushConstraint(rr.cm, e),
                              changed |-> rr.changed]
                  IN rewritten(rewriteConstraints(
                       [m EXCEPT !.visitedUN = <<>>],
                       ExprReplaceVisitor(e.kids[2], e.kids[1])))
             ELSE [cm |-> pushConstraint(m, e), changed |-> FALSE]
      [] OTHER -> [cm |-> pushConstraint(m, e), changed |-> FALSE]

\* the elements of a set / a bag listed in some order (the iteration order
\* of a hash container; no result below depends on it)
RECURSIVE SetToSeq(_)
SetToSeq(S) ==
  IF S = {} THEN <<>>
  ELSE LET x == CHOOSE y \in S : TRUE IN <<x>> \o SetToSeq(S \ {x})

RECURSIVE BagToSeq(_)
BagToSeq(B) ==
  IF BagToSet(B) = {} THEN <<>>
  ELSE LET x == CHOOSE y \in BagToSet(B) : TRUE
       IN <<x>> \o BagToSeq(B (-) SetToBag({x}))

\* the loop of ConstraintManager::checkConstraintChange over constraints:
\* a constraint that cannot be erased from oldConsSet is an added one
RECURSIVE checkConstraintLoop(_, _, _, _)
checkConstraintLoop(cs, i, oldConsSet, added) ==
  IF i > Len(cs) THEN [oldConsSet |-> oldConsSet, added |-> added]
  ELSE IF cs[i] \in oldConsSet
    THEN checkConstraintLoop(cs, i + 1, oldConsSet \ {cs[i]}, added)
    ELSE checkConstraintLoop(cs, i + 1, oldConsSet, Append(added, cs[i]))

\* ConstraintManager::checkConstraintChange
checkConstraintChange(m) ==
  LET r == checkConstraintLoop(m.constraints, 1, SeqToSet(m.old),
                               m.addedConstraints)
  IN [m EXCEPT !.old = <<>>,
               !.addedConstraints = r.added,
               !.deleteConstraints = @ \o SetToSeq(r.oldConsSet)]

\* isConstantEq in ConstraintManager::updateEqualities: refE is an EqExpr
\* with a constant on the left
isConstantEq(e) == e.kind = "Eq" /\ isConstant(e.kids[1])

\* the key an added or deleted constraint has in the equalities map
equalityKey(e) == IF isConstantEq(e) THEN e.kids[2] ELSE e

\* a faulty value: a constraint that is no equality is mapped to false
equalityValue_False(e) == IF isConstantEq(e) THEN e.kids[1] ELSE FalseExpr

\* the value an added constraint is mapped to in the equalities map
equalityValue(e) == IF isConstantEq(e) THEN e.kids[1] ELSE TrueExpr

RECURSIVE insertEqualities(_, _, _)
insertEqualities(eqs, added, i) ==
  IF i > Len(added) THEN eqs
  ELSE insertEqualities(
         (equalityKey(added[i]) :> equalityValue(added[i])) @@ eqs,
         added, i + 1)

\* ConstraintManager::updateEqualities
updateEqualities(m) ==
  LET ins == insertEqualities(m.equalities, m.addedConstraints, 1)
      gone == {equalityKey(e) : e \in SeqToSet(m.deleteConstraints)}
  IN [m EXCEPT !.equalities = [k \in (DOMAIN ins) \ gone |-> ins[k]]]

\* the merge loops shared by updateDelete and the constructor from a list:
\* current absorbs every set of result it intersects ...
RECURSIVE absorb(_, _, _)
absorb(current, result, i) ==
  IF i > Len(result) THEN [current |-> current, result |-> result]
  ELSE IF intersects(current, result[i])
    THEN absorb(add(current, result[i]),
                SubSeq([result EXCEPT ![i] = result[Len(result)]],
                       1, Len(result) - 1),
                i)
    ELSE absorb(current, result, i + 1)

\* ... for each set of temp, taken from the back
RECURSIVE mergeLoop(_, _)
mergeLoop(temp, result) ==
  IF temp = <<>> THEN result
  ELSE LET r == absorb(temp[Len(temp)], result, 1)
       IN mergeLoop(SubSeq(temp, 1, Len(temp) - 1),
                    Append(r.result, r.current))

mergeIndependentSets(temp) ==
  IF temp = <<>> THEN <<>>
  ELSE mergeLoop(SubSeq(temp, 1, Len(temp) - 1), <<temp[Len(temp)]>>)

\* representative[e] = r for every expression e of r
pointTo(rep, r) ==
  [e \in (DOMAIN rep) \cup BagToSet(r.exprs) |->
     IF e \in BagToSet(r.exprs) THEN r ELSE rep[e]]

RECURSIVE pointToAll(_, _)
pointToAll(rep, rs) ==
  IF rs = {} THEN rep
  ELSE LET r == CHOOSE x \in rs : TRUE
       IN pointToAll(pointTo(rep, r), rs \ {r})

\* the factor representative[e] points to; operator[] of the map makes a
\* null entry for an expression that has none
factorOf(rep, e) == IF e \in DOMAIN rep THEN rep[e] ELSE nullptr

\* a faulty rebuild that keeps the remaining constraints of f in one factor
\* with the footprint f had
rebuiltFactors_Unsplit(f, del) ==
  LET keep == BagToSet(f.exprs) \ del
  IN IF keep = {} THEN {}
     ELSE {[f EXCEPT !.exprs = [e \in keep |-> f.exprs[e]]]}

\* what updateDelete puts in place of the factor f, del being the
\* constraints to delete from it
rebuiltFactors(f, del) ==
  LET keep == SelectSeq(BagToSeq(f.exprs), LAMBDA e : e \notin del)
      temp == [i \in 1 .. Len(keep) |-> IndependentElementSet(keep[i])]
  IN SeqToSet(mergeIndependentSets(temp))

\* a faulty update that leaves the factors of deleted constraints in place
updateDelete_Keep(m, ub) == m

\* ConstraintManager::updateDelete.  A constraint queued for deletion that
\* has no representative entry gets a null one, and the null factor is then
\* dereferenced: undefined behaviour, for which ub chooses between a crash
\* ("segv") and a read of an empty expression list ("empty").
updateDelete(m, ub) ==
  LET del == SeqToSet(m.deleteConstraints)
      keys == {factorOf(m.representative, e) : e \in del}
      rep1 == [e \in (DOMAIN m.representative) \ del |->
                 m.representative[e]]
      fresh == UNION {rebuiltFactors(f, {e \in del :
                         factorOf(m.representative, e) = f})
                      : f \in keys \ {nullptr}}
  IN IF nullptr \in keys /\ ub = "segv"
       THEN [m EXCEPT !.status = "segv"]
       ELSE [m EXCEPT !.factors = (@ \ keys) \cup fresh,
                      !.representative = pointToAll(rep1, fresh)]

\* a faulty merge that leaves out what the absorbed factors held
addAll_Drop(current, garbage) == current

\* current->add(*indepSet) for every indepSet of garbage
RECURSIVE addAll(_, _)
addAll(current, garbage) ==
  IF garbage = {} THEN current
  ELSE LET g == CHOOSE x \in garbage : TRUE
       IN addAll(add(current, g), garbage \ {g})

\* a faulty search that misses every intersecting factor
garbageOf_None(m, current) == {}

\* garbage: the existing factors that intersect the new constraint
garbageOf(m, current) == {f \in m.factors : intersects(current, f)}

\* the loop of ConstraintManager::updateIndependentSet over addedConstraints,
\* taken from the back
RECURSIVE addedLoop(_)
addedLoop(m) ==
  IF m.addedConstraints = <<>> THEN m
  ELSE
    LET n == Len(m.addedConstraints)
        current == IndependentElementSet(m.addedConstraints[n])
        rest == SubSeq(m.addedConstraints, 1, n - 1)
        garbage == garbageOf(m, current)
    IN IF Cardinality(garbage) = 1
         THEN LET singleIntersect == CHOOSE f \in garbage : TRUE
                  grown == add(singleIntersect, current)
                  rep1 == [e \in DOMAIN m.representative |->
                             IF m.representative[e] = singleIntersect
                               THEN grown ELSE m.representative[e]]
              IN addedLoop(
                   [m EXCEPT !.addedConstraints = rest,
                             !.factors = (@ \ garbage) \cup {grown},
                             !.representative =
                               [e \in (DOMAIN rep1) \cup BagToSet(current.exprs)
                                  |-> IF e \in BagToSet(current.exprs)
                                        THEN grown ELSE rep1[e]]])
         ELSE LET all == addAll(current, garbage)
              IN addedLoop(
                   [m EXCEPT !.addedConstraints = rest,
                             !.factors = (@ \ garbage) \cup {all},
                             !.representative = pointTo(@, all)])

\* ConstraintManager::updateIndependentSet
updateIndependentSet(m, ub) ==
  LET m1 == IF m.deleteConstraints # <<>> THEN updateDelete(m, ub) ELSE m
  IN IF m1.status # "ok" THEN m1 ELSE addedLoop(m1)

\* a faulty addConstraint that does not clear old after the rewrite
addConstraint_KeepOld(m, e, ub) ==
  IF e \in DOMAIN m.representative THEN [cm |-> m, ret |-> TRUE]
  ELSE IF m.old # <<>> \/ m.deleteConstraints # <<>>
          \/ m.addedConstraints # <<>>
    THEN [cm |-> [m EXCEPT !.status = "assert"], ret |-> FALSE]
  ELSE
    \* s: the simplified expression, r: the manager after
    \* addConstraintInternal, m1: after checkConstraintChange, m2: after
    \* updateEqualities, m3: after updateIndependentSet
    LET updated(m3) ==
          IF m3.status # "ok" THEN [cm |-> m3, ret |-> FALSE]
          ELSE [cm |-> [m3 EXCEPT !.addedConstraints = <<>>,
                                  !.deleteConstraints = <<>>],
                ret |-> TRUE]
        equalitiesUpdated(m2) ==
          updated(IF UseIndependentSolver THEN updateIndependentSet(m2, ub)
                  ELSE m2)
        checked(m1) == equalitiesUpdated(updateEqualities(m1))
        added(r) ==
          IF r.cm.status # "ok" THEN [cm |-> r.cm, ret |-> FALSE]
          ELSE checked(IF r.changed
                         THEN checkConstraintChange(
                                [r.cm EXCEPT !.addedConstraints = <<>>])
                         ELSE r.cm)
        simplified(s) ==
          IF isFalse(s.e) THEN [cm |-> s.cm, ret |-> FALSE]
          ELSE added(addConstraintInternal(s.cm, s.e))
    IN simplified(simplifyExpr(m, e))

\* ConstraintManager::addConstraint: the manager after the call and the
\* value returned (ret is meaningless when the call does not return)
addConstraint(m, e, ub) ==
  IF e \in DOMAIN m.representative THEN [cm |-> m, ret |-> TRUE]
  ELSE IF m.old # <<>> \/ m.deleteConstraints # <<>>
          \/ m.addedConstraints # <<>>
    THEN [cm |-> [m EXCEPT !.status = "assert"], ret |-> FALSE]
  ELSE
    \* s: the simplified expression, r: the manager after
    \* addConstraintInternal, m1: after checkConstraintChange, m2: after
    \* updateEqualities, m3: after updateIndependentSet
    LET updated(m3) ==
          IF m3.status # "ok" THEN [cm |-> m3, ret |-> FALSE]
          ELSE [cm |-> [m3 EXCEPT !.addedConstraints = <<>>,
                                  !.deleteConstraints = <<>>],
                ret |-> TRUE]
        equalitiesUpdated(m2) ==
          updated(IF UseIndependentSolver THEN updateIndependentSet(m2, ub)
                  ELSE m2)
        checked(m1) == equalitiesUpdated(updateEqualities([m1 EXCEPT !.old = <<>>]))
        added(r) ==
          IF r.cm.status # "ok" THEN [cm |-> r.cm, ret |-> FALSE]
          ELSE checked(IF r.changed
                         THEN checkConstraintChange(
                                [r.cm EXCEPT !.addedConstraints = <<>>])
                         ELSE r.cm)
        simplified(s) ==
          IF isFalse(s.e) THEN [cm |-> s.cm, ret |-> FALSE]
          ELSE added(addConstraintInternal(s.cm, s.e))
    IN simplified(simplifyExpr(m, e))

\* ConstraintManager::addConstraint up to the call of updateIndependentSet:
\* the manager with the constraints, the equalities map and the queues of
\* added and deleted constraints as updateIndependentSet finds them
beforeUpdateIndependentSet(m, e) ==
  LET checked(m1) == updateEqualities([m1 EXCEPT !.old = <<>>])
      added(r) ==
        IF r.cm.status # "ok" THEN r.cm
        ELSE checked(IF r.changed
                       THEN checkConstraintChange(
                              [r.cm EXCEPT !.addedConstraints = <<>>])
                       ELSE r.cm)
      simplified(s) ==
        IF isFalse(s.e) THEN s.cm
        ELSE added(addConstraintInternal(s.cm, s.e))
  IN simplified(simplifyExpr(m, e))

\* ConstraintManager(const std::vector<ref<Expr>> &): the constraints are
\* taken as they are, the factors are merged from the footprints of the
\* single constraints; the equalities map stays empty
ConstraintManagerFromList(cs) ==
  LET temp == [i \in 1 .. Len(cs) |-> IndependentElementSet(cs[i])]
      result == SeqToSet(mergeIndependentSets(temp))
  IN [EmptyConstraintManager EXCEPT
        !.constraints = cs,
        !.factors = result,
        !.representative = pointToAll(<<>>, result)]

\* a faulty copy that points to the factors of cs instead of cloning them
ConstraintManagerCopy_Shallow(cs) ==
  [cm |-> [EmptyConstraintManager EXCEPT
             !.constraints = cs.constraints,
             !.factors = cs.factors,
             !.representative = pointToAll(<<>>, cs.factors)],
   shared |-> cs.factors]

\* ConstraintManager(const ConstraintManager &cs): the constraints are
\* copied (the expressions are shared, and immutable), every factor of cs
\* is cloned and representative is rebuilt over the clones; the other
\* members are default-constructed.  shared: the factor objects of cs the
\* new manager points to (none: it owns a clone of each)
ConstraintManagerCopy(cs) ==
  [cm |-> [EmptyConstraintManager EXCEPT
             !.constraints = cs.constraints,
             !.factors = cs.factors,
             !.representative = pointToAll(<<>>, cs.factors)],
   shared |-> {}]

\* the manager other after the manager acted, which pointed to the factor
\* objects shared with it, has deleted or changed in place those it no
\* longer holds: other has lost them too
withAliases(other, shared, acted) ==
  LET gone == shared \ acted.factors
  IN [other EXCEPT
        !.factors = @ \ gone,
        !.representative =
          [x \in {y \in DOMAIN @ : @[y] \notin gone} |-> @[x]]]

\* no Executor has been constructed
NoExecutor == [phase |-> "none"]

\* no copy has been made
NoCopy == [made |-> FALSE, cm |-> EmptyConstraintManager, shared |-> {}]

(***************************************************************************)
(* The comparison semaphore.                                               *)
(*                                                                         *)
(* compareCache holds the global counter CompareCacheSemaphore and the two *)
(* caches Expr::equivs and UpdateNode::UNequivs, as sets of the pairs they *)
(* hold.  holders is the number of CompareCacheSemaphoreHolder objects     *)
(* alive, and cleared tells whether the last operation called clear() on   *)
(* the caches.                                                             *)
(***************************************************************************)
\* the process starts with the counter at zero and the caches empty
NoCompareCache ==
  [CompareCacheSemaphore |-> 0, equivs |-> {}, UNequivs |-> {},
   holders |-> 0, cleared |-> FALSE]

\* inline void CompareCacheSemaphoreInc() { ++CompareCacheSemaphore; }
CompareCacheSemaphoreInc(c) ==
  [c EXCEPT !.CompareCacheSemaphore = @ + 1, !.cleared = FALSE]

\* a faulty decrement that clears the caches whatever the counter is
CompareCacheSemaphoreDec_Always(c) ==
  [c EXCEPT !.CompareCacheSemaphore = @ - 1, !.equivs = {},
            !.UNequivs = {}, !.cleared = TRUE]

\* inline void CompareCacheSemaphoreDec(): the caches are cleared when the
\* decremented counter is zero.  The counter is a uint64_t; the destructor
\* of a holder decrements a counter its constructor incremented, so the
\* decrement never wraps
CompareCacheSemaphoreDec(c) ==
  IF c.CompareCacheSemaphore - 1 = 0
    THEN [c EXCEPT !.CompareCacheSemaphore = @ - 1, !.equivs = {},
                   !.UNequivs = {}, !.cleared = TRUE]
    ELSE [c EXCEPT !.CompareCacheSemaphore = @ - 1, !.cleared = FALSE]

(***************************************************************************)
(* The expressions the environment hands to the manager.  They are built   *)
(* with the constructors, so they are canonical.                           *)
(***************************************************************************)
Byte(v) == ConstantExpr_alloc(v, RangeWidth)
Rd(root, i) == ReadExpr_create(root, <<>>, Byte(i))

a0 == Rd("a", 0)
a1 == Rd("a", 1)
b0 == Rd("b", 0)
b1 == Rd("b", 1)

\* a read of a at a symbolic index (0 or 1) through the write a[0] := b[0]
SymIndex == AndExpr_create(Byte(1), b1)
ReadThroughUpdate ==
  ReadExpr_create("a", <<UpdateNode(Byte(0), b0)>>, SymIndex)

ExprInputs ==
  { EqExpr_create(Byte(1), a0),
    EqExpr_create(a0, b0),
    UltExpr_create(a0, Byte(1)),
    UltExpr_create(b1, Byte(2)),
    NotExpr_create(UltExpr_create(b1, Byte(2))),
    AndExpr_create(UltExpr_create(a0, b0), EqExpr_create(Byte(1), a0)),
    AndExpr_create(EqExpr_create(Byte(1), a0), UltExpr_create(a0, b0)),
    AndExpr_create(UltExpr_create(b1, Byte(2)),
                   AndExpr_create(UltExpr_create(a1, Byte(2)),
                                  UltExpr_create(b1, Byte(2)))),
    UltExpr_create(ReadThroughUpdate, Byte(2)) }

\* the expression lists a manager is constructed from
InitLists ==
  { <<UltExpr_create(a0, a1), UltExpr_create(a0, b0),
      UltExpr_create(a1, Byte(2)), UltExpr_create(b0, Byte(2))>> }

\* the record of a call: the operation, its argument, the boolean it returned
\* (ret), the expression it returned (res) and, for a call of the solver,
\* the constraints shipped to the inner solver (required) and the out
\* parameters (result, isValid, value, hasSolution, values for objects), the
\* map retMap the values were taken from, the outcomes of the inner queries
\* of the call (inner), and what the call of computeInitialValues ran under:
\* the option UseIndependentSolverType (type), the order in which the
\* factors of the manager were iterated (fs), and what the inner solver
\* did with each query (answers)
NoCall ==
  [op |-> "none", arg |-> FalseExpr, ret |-> FALSE, res |-> FalseExpr,
   required |-> <<>>, result |-> "none", isValid |-> FALSE, value |-> 0,
   objects |-> <<>>, values |-> <<>>, hasSolution |-> FALSE,
   retMap |-> <<>>, inner |-> <<>>, type |-> "none", fs |-> <<>>,
   answers |-> <<>>]

Init ==
  /\ RewriteEqualities \in BOOLEAN
  /\ UseIndependentSolver \in BOOLEAN
  /\ cm \in {EmptyConstraintManager}
            \cup {ConstraintManagerFromList(cs) : cs \in InitLists}
  /\ calls = 0
  /\ last = NoCall
  /\ copy = NoCopy
  /\ compareCache = NoCompareCache
  /\ ex = NoExecutor

\* bool ConstraintManager::addConstraint(ref<Expr> e)
AddConstraint(e, ub) ==
  /\ cm.status = "ok"
  /\ calls < MaxCalls
  /\ LET r == addConstraint(cm, e, ub)
     IN /\ cm' = r.cm
        /\ last' = [NoCall EXCEPT !.op = "addConstraint", !.arg = e,
                                !.ret = r.ret]
  /\ calls' = calls + 1
  /\ UNCHANGED <<ex, compareCache, copy, RewriteEqualities, UseIndependentSolver>>

\* ref<Expr> ConstraintManager::simplifyExpr(ref<Expr> e) const
SimplifyExpr(e) ==
  /\ cm.status = "ok"
  /\ calls < MaxCalls
  /\ LET r == simplifyExpr(cm, e)
     IN /\ cm' = r.cm
        /\ last' = [NoCall EXCEPT !.op = "simplifyExpr", !.arg = e,
                                !.res = r.e]
  /\ calls' = calls + 1
  /\ UNCHANGED <<ex, compareCache, copy, RewriteEqualities, UseIndependentSolver>>

Next ==
  \/ \E e \in ExprInputs, ub \in {"segv", "empty"} : AddConstraint(e, ub)
  \/ \E e \in ExprInputs \cup {last.res} : SimplifyExpr(e)

Spec == Init /\ [][Next]_vars

(***************************************************************************)
(* A third environment, for branching: the state is copied once, as in     *)
(* ExecutionState::branch and Executor::getSymbolicSolution, and           *)
(* constraints are added to the original and to the copy in any order.     *)
(***************************************************************************)
MaxBranchCalls == 3

BranchInputs ==
  { EqExpr_create(Byte(1), a0),
    EqExpr_create(a0, b0),
    UltExpr_create(a0, b0),
    UltExpr_create(b1, Byte(2)),
    UltExpr_create(a1, b1) }

\* ExecutionState::addConstraint on the original state
AddToOriginal(e, ub) ==
  /\ cm.status = "ok"
  /\ calls < MaxBranchCalls
  /\ LET added(r) ==
           /\ cm' = r.cm
           /\ copy' = [copy EXCEPT
                         !.cm = withAliases(@, copy.shared, r.cm),
                         !.shared = @ \cap r.cm.factors]
           /\ last' = [NoCall EXCEPT !.op = "addConstraint", !.arg = e,
                                     !.ret = r.ret]
     IN added(addConstraint(cm, e, ub))
  /\ calls' = calls + 1
  /\ UNCHANGED <<ex, compareCache, RewriteEqualities, UseIndependentSolver>>

\* ExecutionState(const ExecutionState &): constraints(state.constraints)
Branch ==
  /\ cm.status = "ok"
  /\ ~copy.made
  /\ LET copied(r) ==
           copy' = [made |-> TRUE, cm |-> r.cm, shared |-> r.shared]
     IN copied(ConstraintManagerCopy(cm))
  /\ last' = [NoCall EXCEPT !.op = "branch"]
  /\ UNCHANGED <<ex, compareCache, RewriteEqualities, UseIndependentSolver, cm, calls>>

\* ExecutionState::addConstraint on the copy (falseState, tmp)
AddToCopy(e, ub) ==
  /\ cm.status = "ok"
  /\ copy.made /\ copy.cm.status = "ok"
  /\ calls < MaxBranchCalls
  /\ LET added(r) ==
           /\ copy' = [copy EXCEPT !.cm = r.cm,
                                   !.shared = @ \cap r.cm.factors]
           /\ cm' = withAliases(cm, copy.shared, r.cm)
           /\ last' = [NoCall EXCEPT !.op = "copy.addConstraint",
                                     !.arg = e, !.ret = r.ret]
     IN added(addConstraint(copy.cm, e, ub))
  /\ calls' = calls + 1
  /\ UNCHANGED <<ex, compareCache, RewriteEqualities, UseIndependentSolver>>

NextBranch ==
  \/ \E e \in BranchInputs, ub \in {"segv", "empty"} : AddToOriginal(e, ub)
  \/ Branch
  \/ \E e \in BranchInputs, ub \in {"segv", "empty"} : AddToCopy(e, ub)

SpecBranch == Init /\ [][NextBranch]_vars

(***************************************************************************)
(* A fourth environment, for the comparison semaphore: holders are         *)
(* constructed and destroyed in any nesting, and comparisons fill the      *)
(* caches in between.                                                      *)
(***************************************************************************)
MaxHolders == 3

\* the pairs of equal expressions, and of equal update nodes, that deep
\* comparisons find
EquivPairs == {"p1", "p2", "p3"}

\* CompareCacheSemaphoreHolder() { CompareCacheSemaphoreInc(); }
ConstructHolder ==
  /\ compareCache.holders < MaxHolders
  /\ compareCache' =
       [CompareCacheSemaphoreInc(compareCache) EXCEPT !.holders = @ + 1]
  /\ UNCHANGED <<ex, RewriteEqualities, UseIndependentSolver, cm, calls, last,
                 copy>>

\* ~CompareCacheSemaphoreHolder() { CompareCacheSemaphoreDec(); }
DestroyHolder ==
  /\ compareCache.holders > 0
  /\ compareCache' =
       [CompareCacheSemaphoreDec(compareCache) EXCEPT !.holders = @ - 1]
  /\ UNCHANGED <<ex, RewriteEqualities, UseIndependentSolver, cm, calls, last,
                 copy>>

\* Expr::compare finds the two expressions of p equal and caches the pair
CompareExpr(p) ==
  /\ compareCache' = [compareCache EXCEPT !.equivs = @ \cup {p},
                                          !.cleared = FALSE]
  /\ UNCHANGED <<ex, RewriteEqualities, UseIndependentSolver, cm, calls, last,
                 copy>>

\* UpdateNode::compare finds the two nodes of p equal and caches the pair
CompareUpdateNode(p) ==
  /\ compareCache' = [compareCache EXCEPT !.UNequivs = @ \cup {p},
                                          !.cleared = FALSE]
  /\ UNCHANGED <<ex, RewriteEqualities, UseIndependentSolver, cm, calls, last,
                 copy>>

InitCompare ==
  /\ RewriteEqualities = TRUE
  /\ UseIndependentSolver = TRUE
  /\ cm = EmptyConstraintManager
  /\ calls = 0
  /\ last = NoCall
  /\ copy = NoCopy
  /\ compareCache = NoCompareCache
  /\ ex = NoExecutor

NextCompare ==
  \/ ConstructHolder
  \/ DestroyHolder
  \/ \E p \in EquivPairs : CompareExpr(p)
  \/ \E p \in EquivPairs : CompareUpdateNode(p)

SpecCompare == InitCompare /\ [][NextCompare]_vars

(***************************************************************************)
(* A second environment, for the simplifier: expressions that read through *)
(* update lists are simplified between calls that add equalities, so that  *)
(* simplifyExpr runs with update-node maps filled under older equalities.  *)
(***************************************************************************)
MaxSimplifySteps == 4

\* a read of a at a symbolic index through the write a[1 & a[1]] := b[0]
UpdateRead ==
  ReadExpr_create("a", <<UpdateNode(AndExpr_create(Byte(1), a1), b0)>>,
                  SymIndex)

EqualityInputs ==
  { EqExpr_create(Byte(1), b0),
    EqExpr_create(Byte(1), a1),
    EqExpr_create(Byte(1), b1),
    UltExpr_create(a0, b0),
    EqExpr_create(Byte(2), UpdateRead) }

SimplifyInputs ==
  { UltExpr_create(UpdateRead, Byte(2)),
    UltExpr_create(ReadThroughUpdate, Byte(2)),
    EqExpr_create(a1, UpdateRead),
    AndExpr_create(UltExpr_create(a0, b0), UltExpr_create(b1, Byte(2))) }

InitSimplify ==
  /\ RewriteEqualities \in BOOLEAN
  /\ UseIndependentSolver \in BOOLEAN
  /\ cm = EmptyConstraintManager
  /\ calls = 0
  /\ last = NoCall
  /\ copy = NoCopy
  /\ compareCache = NoCompareCache
  /\ ex = NoExecutor

\* bool ConstraintManager::addConstraint(ref<Expr> e)
AddEquality(e, ub) ==
  /\ cm.status = "ok"
  /\ calls < MaxSimplifySteps
  /\ LET r == addConstraint(cm, e, ub)
     IN /\ cm' = r.cm
        /\ last' = [NoCall EXCEPT !.op = "addConstraint", !.arg = e,
                                !.ret = r.ret]
  /\ calls' = calls + 1
  /\ UNCHANGED <<ex, compareCache, copy, RewriteEqualities, UseIndependentSolver>>

\* ref<Expr> ConstraintManager::simplifyExpr(ref<Expr> e) const
SimplifyRead(e) ==
  /\ cm.status = "ok"
  /\ calls < MaxSimplifySteps
  /\ LET r == simplifyExpr(cm, e)
     IN /\ cm' = r.cm
        /\ last' = [NoCall EXCEPT !.op = "simplifyExpr", !.arg = e,
                                !.res = r.e]
  /\ calls' = calls + 1
  /\ UNCHANGED <<ex, compareCache, copy, RewriteEqualities, UseIndependentSolver>>

NextSimplify ==
  \/ \E e \in EqualityInputs, ub \in {"segv", "empty"} : AddEquality(e, ub)
  \/ \E e \in SimplifyInputs : SimplifyRead(e)

SpecSimplify == InitSimplify /\ [][NextSimplify]_vars

(***************************************************************************)
(* The independent solver (IndependentSolver.cpp).  The solver it wraps is *)
(* not part of the sources at hand; it is taken to be a complete and       *)
(* correct decision procedure over the byte assignments, as section 4.5 of *)
(* the specification describes the concrete backend.                       *)
(***************************************************************************)
\* the byte assignments that satisfy every constraint of the list cs
Models(cs) ==
  {A \in Assignments \cup {} : \A i \in 1 .. Len(cs) : Eval(cs[i], A) = 1}

\* the constraints the filter ships nothing of
getIndependentConstraints_None(m, q) ==
  [eltsClosure |-> IndependentElementSet(q), result |-> <<>>]

\* a faulty loop that stops at the first factor that intersects the query
\* a faulty filter that ships the expressions of every factor
RECURSIVE requiredOf_All(_, _)
requiredOf_All(eltsClosure, fs) ==
  IF fs = <<>> THEN <<>>
  ELSE BagToSeq(Head(fs).exprs) \o requiredOf_All(eltsClosure, Tail(fs))

RECURSIVE requiredOf_First(_, _)
requiredOf_First(eltsClosure, fs) ==
  IF fs = <<>> THEN <<>>
  ELSE IF intersects(eltsClosure, Head(fs)) THEN BagToSeq(Head(fs).exprs)
  ELSE requiredOf_First(eltsClosure, Tail(fs))

\* getIndependentConstraints(query, result): the footprint of the query
\* expression, and in result the expressions of every factor of the
\* manager that intersects it
RECURSIVE requiredOf(_, _)
requiredOf(eltsClosure, fs) ==
  IF fs = <<>> THEN <<>>
  ELSE (IF intersects(eltsClosure, Head(fs)) THEN BagToSeq(Head(fs).exprs)
        ELSE <<>>) \o requiredOf(eltsClosure, Tail(fs))

getIndependentConstraints(m, q) ==
  LET eltsClosure == IndependentElementSet(q)
  IN [eltsClosure |-> eltsClosure,
      result |-> requiredOf(eltsClosure, SetToSeq(m.factors))]

\* solver->impl->computeTruth(Query(constraints, expr), isValid): isValid
\* is set iff expr holds under every model of the constraints
impl_computeTruth(cs, q) == \A A \in Models(cs) : Eval(q, A) = 1

\* solver->impl->computeValidity(Query(constraints, expr), result)
impl_computeValidity(cs, q) ==
  IF impl_computeTruth(cs, q) THEN "True"
  ELSE IF impl_computeTruth(cs, createIsZero(q)) THEN "False"
  ELSE "Unknown"

\* solver->impl->computeValue(Query(constraints, expr), result): the
\* values the inner solver may answer with, one for each model; it fails
\* when there is none
impl_computeValue(cs, q) == {Eval(q, A) : A \in Models(cs)}

\* what solver->impl->computeInitialValues may do with a query: fail, or
\* decide it and, when it has a model, answer with the least or with the
\* greatest model in the order of the cells
Answers == {"fail", "least", "greatest"}

CellOrder == SetToSeq(Cells)

RECURSIVE extremeModel(_, _, _)
extremeModel(ms, answer, i) ==
  IF i > Len(CellOrder) THEN CHOOSE A \in ms : TRUE
  ELSE LET c == CellOrder[i]
           vs == {A[c] : A \in ms}
           v == IF answer = "least"
                  THEN CHOOSE x \in vs : \A y \in vs : x <= y
                  ELSE CHOOSE x \in vs : \A y \in vs : x >= y
       IN extremeModel({A \in ms : A[c] = v}, answer, i + 1)

\* solver->impl->computeInitialValues(Query(constraints, false), arrays,
\* tempValues, hasSolution): the value returned, hasSolution (left as the
\* caller set it when the call fails) and the bytes of each array
impl_computeInitialValues(cs, arrays, answer) ==
  IF answer = "fail"
    THEN [ret |-> FALSE, hasSolution |-> TRUE, values |-> <<>>]
  ELSE LET ms == Models(cs)
           A == extremeModel(ms, answer, 1)
       IN IF ms = {}
            THEN [ret |-> TRUE, hasSolution |-> FALSE, values |-> <<>>]
            ELSE [ret |-> TRUE, hasSolution |-> TRUE,
                  values |-> [arr \in arrays |->
                                [i \in 1 .. ArraySize |-> A[<<arr, i - 1>>]]]]

\* Assignment::evaluate with _allowFreeValues = true (Assignment.h is not
\* part of the sources at hand): a read of a bound array at a constant
\* index becomes the constant bound there, other reads stay, and the rest
\* is rebuilt
RECURSIVE evaluate(_, _)
RECURSIVE evaluateRead(_, _, _, _)
evaluateRead(bindings, root, ul, idx) ==
  IF ul = <<>>
    THEN IF root \in DOMAIN bindings /\ idx.value < Len(bindings[root])
           THEN ConstantExpr_alloc(bindings[root][idx.value + 1], RangeWidth)
           ELSE ReadExpr_alloc(root, <<>>, idx)
  ELSE LET ui == evaluate(bindings, Head(ul).index)
       IN IF ~isConstant(ui) THEN ReadExpr_alloc(root, ul, idx)
          ELSE IF ui = idx THEN evaluate(bindings, Head(ul).value)
          ELSE evaluateRead(bindings, root, Tail(ul), idx)

evaluate(bindings, e) ==
  CASE e.kind = "Constant" -> e
    [] e.kind = "Read" ->
         LET idx == evaluate(bindings, e.kids[1])
         IN IF isConstant(idx)
              THEN evaluateRead(bindings, e.array, e.updates, idx)
              ELSE ReadExpr_alloc(e.array, e.updates, idx)
    [] OTHER ->
         rebuild(e, [i \in 1 .. Len(e.kids) |-> evaluate(bindings, e.kids[i])],
                 <<>>)

\* Assignment(objects, values) with the bindings of retMap inserted for the
\* arrays that objects does not name
Assignment(objects, values, retMap) ==
  [arr \in SeqToSet(objects) \cup DOMAIN retMap |->
     IF arr \in SeqToSet(objects)
       THEN values[CHOOSE i \in 1 .. Len(objects) : objects[i] = arr]
       ELSE retMap[arr]]

\* the loop of assertCreatedPointEvaluatesToTrue over query.constraints: a
\* constraint that does not evaluate to a constant is warned about and
\* passed, one that evaluates to false ends the loop
RECURSIVE constraintsHold(_, _, _)
constraintsHold(assign, cs, i) ==
  IF i > Len(cs) THEN TRUE
  ELSE IF isFalse(evaluate(assign, cs[i])) THEN FALSE
  ELSE constraintsHold(assign, cs, i + 1)

\* assertCreatedPointEvaluatesToTrue: "true", "false", or "assert" when the
\* negated query does not evaluate to a constant
assertCreatedPointEvaluatesToTrue(m, q, objects, values, retMap) ==
  LET assign == Assignment(objects, values, retMap)
      neg == evaluate(assign, createIsZero(q))
  IN IF ~constraintsHold(assign, m.constraints, 1) THEN "false"
     ELSE IF ~isConstant(neg) THEN "assert"
     ELSE IF isTrue(neg) THEN "true" ELSE "false"

\* the loop of getAllIndependentConstraintsSets over the factors fs of the
\* manager: a factor that intersects current is added to current, any
\* other goes to the result
RECURSIVE independentOf(_, _)
independentOf(current, fs) ==
  IF fs = <<>> THEN <<>>
  ELSE IF intersects(current, Head(fs))
    THEN independentOf(add(current, Head(fs)), Tail(fs))
    ELSE <<Head(fs)>> \o independentOf(current, Tail(fs))

\* getAllIndependentConstraintsSets(query), fs being the factors of the
\* manager in the order the iterator yields them
getAllIndependentConstraintsSets(q, fs) ==
  IF isConstant(q) /\ ~isFalse(q)
    THEN [status |-> "assert", result |-> <<>>]
    ELSE [status |-> "ok",
          result |-> independentOf(
                       IF isConstant(q) THEN EmptyIndependentElementSet
                       ELSE IndependentElementSet(createIsZero(q)), fs)]

\* calculateArrayReferences
calculateArrayReferences(ie) == (DOMAIN ie.elements) \cup ie.wholeObjects

\* command line option: the number of expressions after which
\* computeInitialValuesBatch starts a new part
ExprNumThreshold == 2

\* a faulty merge that leaves an array that already has an entry as it is
placeValues_KeepFirst(retMap, tempValues, ds) ==
  [arr \in (DOMAIN retMap) \cup (DOMAIN tempValues) |->
     IF arr \in DOMAIN retMap THEN retMap[arr] ELSE tempValues[arr]]

\* a faulty merge that takes the whole answer for an array that already
\* has an entry
placeValues_Overwrite(retMap, tempValues, ds) ==
  [arr \in (DOMAIN retMap) \cup (DOMAIN tempValues) |->
     IF arr \notin DOMAIN tempValues THEN retMap[arr] ELSE tempValues[arr]]

\* retMap after the answers tempValues of one inner query are placed: an
\* array that has no entry takes the whole answer, one that has an entry
\* takes the answer at the indices ds[arr]
placeValues(retMap, tempValues, ds) ==
  [arr \in (DOMAIN retMap) \cup (DOMAIN tempValues) |->
     IF arr \notin DOMAIN tempValues THEN retMap[arr]
     ELSE IF arr \notin DOMAIN retMap THEN tempValues[arr]
     ELSE [i \in 1 .. ArraySize |->
             IF (i - 1) \in ds[arr] THEN tempValues[arr][i]
             ELSE retMap[arr][i]]]

\* the answer of the i-th inner query of a call
answerOf(answers, i) == answers[((i - 1) % Len(answers)) + 1]

\* a faulty fill that pushes the vectors in the reverse order of objects
valuesOf_Reversed(objects, retMap) ==
  [i \in 1 .. Len(objects) |->
     IF objects[Len(objects) + 1 - i] \in DOMAIN retMap
       THEN retMap[objects[Len(objects) + 1 - i]]
     ELSE [j \in 1 .. ArraySize |-> 0]]

\* values: the entry of retMap for each array of objects, zeros for an
\* array that has none
valuesOf(objects, retMap) ==
  [i \in 1 .. Len(objects) |->
     IF objects[i] \in DOMAIN retMap THEN retMap[objects[i]]
     ELSE [j \in 1 .. ArraySize |-> 0]]

\* a failed assertion: the call does not return
asserted(inner) ==
  [status |-> "assert", ret |-> FALSE, hasSolution |-> TRUE, values |-> <<>>,
   retMap |-> <<>>, inner |-> inner]

\* a faulty handler that reports success when the inner solver failed
solverFailed_ReturnsTrue(hasSolution, inner) ==
  [status |-> "ok", ret |-> TRUE, hasSolution |-> hasSolution,
   values |-> <<>>, retMap |-> <<>>, inner |-> inner]

\* the inner call returned false: values.clear(); return false (hasSolution
\* is as the inner solver left it)
solverFailed(hasSolution, inner) ==
  [status |-> "ok", ret |-> FALSE, hasSolution |-> hasSolution,
   values |-> <<>>, retMap |-> <<>>, inner |-> inner]

\* a faulty handler that leaves hasSolution as it was set at the start
noSolution_HasSolution(inner) ==
  [status |-> "ok", ret |-> TRUE, hasSolution |-> TRUE, values |-> <<>>,
   retMap |-> <<>>, inner |-> inner]

\* the inner call cleared hasSolution: values.clear(); return true
noSolution(inner) ==
  [status |-> "ok", ret |-> TRUE, hasSolution |-> FALSE, values |-> <<>>,
   retMap |-> <<>>, inner |-> inner]

\* what an inner query did: it failed, it found no model, it found one
outcomeOf(r) ==
  IF ~r.ret THEN "fail" ELSE IF ~r.hasSolution THEN "unsat" ELSE "sat"

\* the end of both computeInitialValues variants: values is filled from
\* retMap and the point is verified under an assert
finishInitialValues(m, q, objects, retMap, inner) ==
  LET values == valuesOf(objects, retMap)
      v == assertCreatedPointEvaluatesToTrue(m, q, objects, values, retMap)
  IN IF v = "true"
       THEN [status |-> "ok", ret |-> TRUE, hasSolution |-> TRUE,
             values |-> values, retMap |-> retMap, inner |-> inner]
       ELSE [status |-> "assert", ret |-> FALSE, hasSolution |-> TRUE,
             values |-> values, retMap |-> retMap, inner |-> inner]

\* the loop of computeInitialValuesPerFactor over the factors fs, inner
\* being the outcomes of the inner queries made so far
RECURSIVE perFactorLoop(_, _, _, _, _, _, _)
perFactorLoop(m, q, objects, fs, retMap, inner, answers) ==
  IF fs = <<>> THEN finishInitialValues(m, q, objects, retMap, inner)
  ELSE
    LET it == Head(fs)
        arraysInFactor == calculateArrayReferences(it)
    IN IF BagCardinality(it.exprs) < 1 THEN asserted(inner)
       ELSE IF arraysInFactor = {}
         THEN perFactorLoop(m, q, objects, Tail(fs), retMap, inner, answers)
       ELSE
         LET ds == [arr \in arraysInFactor |->
                      IF arr \in DOMAIN it.elements THEN it.elements[arr]
                      ELSE {}]
             answered(r) ==
               IF ~r.ret
                 THEN solverFailed(r.hasSolution, Append(inner, outcomeOf(r)))
               ELSE IF ~r.hasSolution
                 THEN noSolution(Append(inner, outcomeOf(r)))
               ELSE perFactorLoop(m, q, objects, Tail(fs),
                                  placeValues(retMap, r.values, ds),
                                  Append(inner, outcomeOf(r)), answers)
         IN answered(impl_computeInitialValues(BagToSeq(it.exprs),
                       arraysInFactor, answerOf(answers, Len(inner) + 1)))

\* IndependentSolver::computeInitialValuesPerFactor
computeInitialValuesPerFactor(m, q, objects, fs, answers) ==
  LET factors == getAllIndependentConstraintsSets(q, fs)
  IN IF factors.status # "ok" THEN asserted(<<>>)
     ELSE perFactorLoop(m, q, objects, factors.result, <<>>, <<>>, answers)

\* factors->sort(by exprs.size()): std::list::sort is stable
RECURSIVE sortFactors(_)
insertFactor(f, sorted) ==
  LET k == Cardinality({i \in 1 .. Len(sorted) :
             BagCardinality(sorted[i].exprs) <= BagCardinality(f.exprs)})
  IN SubSeq(sorted, 1, k) \o <<f>> \o SubSeq(sorted, k + 1, Len(sorted))

sortFactors(fs) ==
  IF fs = <<>> THEN <<>>
  ELSE insertFactor(fs[Len(fs)], sortFactors(SubSeq(fs, 1, Len(fs) - 1)))

\* the loop that fills part_container: a new part is started when the
\* parts so far hold ExprNumThreshold expressions or more
RECURSIVE fillParts(_, _, _)
fillParts(fs, parts, acc_expr_cnt) ==
  IF fs = <<>> THEN parts
  ELSE LET full == acc_expr_cnt >= ExprNumThreshold
           parts1 == IF full THEN Append(parts, <<>>) ELSE parts
           acc == IF full THEN 0 ELSE acc_expr_cnt
       IN fillParts(Tail(fs),
                    [parts1 EXCEPT ![Len(parts1)] = Append(@, Head(fs))],
                    acc + BagCardinality(Head(fs).exprs))

\* a faulty packing that puts every factor into one part
part_container_Single(fs) ==
  IF fs = <<>> THEN <<>> ELSE <<fs>>

part_container(fs) ==
  LET parts == fillParts(fs, << <<>> >>, 0)
  IN IF parts[Len(parts)] = <<>> THEN SubSeq(parts, 1, Len(parts) - 1)
     ELSE parts

\* the constraints and the arrays of the factors of one part
RECURSIVE partConstraints(_)
partConstraints(part) ==
  IF part = <<>> THEN <<>>
  ELSE BagToSeq(Head(part).exprs) \o partConstraints(Tail(part))

partArrays(part) ==
  UNION {calculateArrayReferences(part[i]) : i \in 1 .. Len(part)}

\* the loop of computeInitialValuesBatch over the parts, inner being the
\* outcomes of the inner queries made so far
RECURSIVE batchLoop(_, _, _, _, _, _, _)
batchLoop(m, q, objects, parts, retMap, inner, answers) ==
  IF parts = <<>> THEN finishInitialValues(m, q, objects, retMap, inner)
  ELSE
    LET part == Head(parts)
        arraysInFactor == partArrays(part)
    IN IF \E i \in 1 .. Len(part) :
            \/ BagCardinality(part[i].exprs) < 1
            \/ partArrays(SubSeq(part, 1, i)) = {}
         THEN asserted(inner)
       ELSE
         LET ds == [arr \in arraysInFactor |->
                      UNION {part[i].elements[arr] :
                               i \in {j \in 1 .. Len(part) :
                                        arr \in DOMAIN part[j].elements}}]
             answered(r) ==
               IF ~r.ret
                 THEN solverFailed(r.hasSolution, Append(inner, outcomeOf(r)))
               ELSE IF ~r.hasSolution
                 THEN noSolution(Append(inner, outcomeOf(r)))
               ELSE batchLoop(m, q, objects, Tail(parts),
                              placeValues(retMap, r.values, ds),
                              Append(inner, outcomeOf(r)), answers)
         IN answered(impl_computeInitialValues(partConstraints(part),
                       arraysInFactor, answerOf(answers, Len(inner) + 1)))

\* IndependentSolver::computeInitialValuesBatch
computeInitialValuesBatch(m, q, objects, fs, answers) ==
  LET factors == getAllIndependentConstraintsSets(q, fs)
  IN IF factors.status # "ok" THEN asserted(<<>>)
     ELSE IF \E i \in 1 .. Len(factors.result) :
               BagCardinality(factors.result[i].exprs) < 1
       THEN asserted(<<>>)
     ELSE batchLoop(m, q, objects,
                    part_container(sortFactors(factors.result)), <<>>, <<>>,
                    answers)

\* IndependentSolver::computeInitialValues: the variant the option
\* UseIndependentSolverType selects
computeInitialValues(type, m, q, objects, fs, answers) ==
  IF type = "PER_FACTOR"
    THEN computeInitialValuesPerFactor(m, q, objects, fs, answers)
    ELSE computeInitialValuesBatch(m, q, objects, fs, answers)

(***************************************************************************)
(* A third environment, for the solver: the manager is filled by           *)
(* addConstraint with the independent solver enabled, and queries are put  *)
(* to the independent solver.  A query leaves the manager as it is, so a   *)
(* run that goes on after a query only reaches what the run without the    *)
(* query reaches: the environment ends a run with its query (Asking).      *)
(***************************************************************************)
MaxSolverCalls == 2

\* a read of a at a symbolic index (0 or 1): a whole-object reference
WholeRead == ReadExpr_create("a", <<>>, AndExpr_create(Byte(1), a1))

SolverConstraintInputs ==
  { UltExpr_create(WholeRead, Byte(2)),
    UltExpr_create(b0, a0),
    UltExpr_create(a1, Byte(2)),
    UltExpr_create(b1, Byte(2)),
    NotExpr_create(UltExpr_create(b1, Byte(2))),
    EqExpr_create(Byte(1), a0),
    UltExpr_create(b0, Byte(0)) }

QueryInputs ==
  { FalseExpr,
    NotExpr_create(UltExpr_create(a0, Byte(1))),
    UltExpr_create(a1, Byte(2)),
    UltExpr_create(a1, b1) }

\* what the inner solver does with the first, the second, ... query of a call
AnswerLists ==
  { <<"least", "greatest">>, <<"greatest", "fail">>, <<"fail", "least">> }

\* the query expressions initial values are asked for
InitialValueQueries ==
  { FalseExpr, TrueExpr, NotExpr_create(UltExpr_create(a0, Byte(1))) }

ObjectLists == { <<"a">>, <<"a", "b">> }

\* the sequences that list the elements of the set S once each
Orders(S) ==
  {o \in [1 .. Cardinality(S) -> S] :
     \A i \in DOMAIN o, j \in DOMAIN o : i # j => o[i] # o[j]}

\* no query has been put yet
Asking == last.op \in {"none", "addConstraint"}

\* the options at their defaults for a run with the independent solver
InitSolver ==
  /\ RewriteEqualities = TRUE
  /\ UseIndependentSolver = TRUE
  /\ cm = EmptyConstraintManager
  /\ calls = 0
  /\ last = NoCall
  /\ copy = NoCopy
  /\ compareCache = NoCompareCache
  /\ ex = NoExecutor

\* bool ConstraintManager::addConstraint(ref<Expr> e)
AssertConstraint(e, ub) ==
  /\ cm.status = "ok"
  /\ Asking
  /\ calls < MaxSolverCalls
  /\ LET r == addConstraint(cm, e, ub)
     IN /\ cm' = r.cm
        /\ last' = [NoCall EXCEPT !.op = "addConstraint", !.arg = e,
                                !.ret = r.ret]
  /\ calls' = calls + 1
  /\ UNCHANGED <<ex, compareCache, copy, RewriteEqualities, UseIndependentSolver>>

\* IndependentSolver::computeValidity
ComputeValidity(q) ==
  /\ cm.status = "ok"
  /\ Asking
  /\ LET required == getIndependentConstraints(cm, q).result
     IN last' = [NoCall EXCEPT !.op = "computeValidity", !.arg = q,
                               !.ret = TRUE, !.required = required,
                               !.result = impl_computeValidity(required, q)]
  /\ UNCHANGED <<ex, compareCache, copy, RewriteEqualities, UseIndependentSolver, cm, calls>>

\* IndependentSolver::computeTruth
ComputeTruth(q) ==
  /\ cm.status = "ok"
  /\ Asking
  /\ LET required == getIndependentConstraints(cm, q).result
     IN last' = [NoCall EXCEPT !.op = "computeTruth", !.arg = q,
                               !.ret = TRUE, !.required = required,
                               !.isValid = impl_computeTruth(required, q)]
  /\ UNCHANGED <<ex, compareCache, copy, RewriteEqualities, UseIndependentSolver, cm, calls>>

\* IndependentSolver::computeValue
ComputeValue(q) ==
  /\ cm.status = "ok"
  /\ Asking
  /\ LET required == getIndependentConstraints(cm, q).result
         vs == impl_computeValue(required, q)
     IN IF vs = {}
          THEN last' = [NoCall EXCEPT !.op = "computeValue", !.arg = q,
                                      !.ret = FALSE, !.required = required]
          ELSE \E v \in vs :
                 last' = [NoCall EXCEPT !.op = "computeValue", !.arg = q,
                                        !.ret = TRUE, !.required = required,
                                        !.value = v]
  /\ UNCHANGED <<ex, compareCache, copy, RewriteEqualities, UseIndependentSolver, cm, calls>>

\* IndependentSolver::computeInitialValues
ComputeInitialValues(type, q, objects, fs, answers) ==
  /\ cm.status = "ok"
  /\ Asking
  /\ LET r == computeInitialValues(type, cm, q, objects, fs, answers)
     IN /\ cm' = [cm EXCEPT !.status = r.status]
        /\ last' = [NoCall EXCEPT !.op = "computeInitialValues", !.arg = q,
                                  !.ret = r.ret, !.objects = objects,
                                  !.values = r.values,
                                  !.hasSolution = r.hasSolution,
                                  !.retMap = r.retMap, !.inner = r.inner,
                                  !.type = type, !.fs = fs,
                                  !.answers = answers]
  /\ UNCHANGED <<ex, compareCache, copy, RewriteEqualities, UseIndependentSolver, calls>>

NextSolver ==
  \/ \E e \in SolverConstraintInputs, ub \in {"segv", "empty"} :
       AssertConstraint(e, ub)
  \/ \E q \in QueryInputs : ComputeValidity(q)
  \/ \E q \in QueryInputs : ComputeTruth(q)
  \/ \E q \in QueryInputs : ComputeValue(q)
  \/ \E type \in {"PER_FACTOR", "BATCH"}, q \in InitialValueQueries,
        objects \in ObjectLists, fs \in Orders(cm.factors),
        answers \in AnswerLists :
       ComputeInitialValues(type, q, objects, fs, answers)

SpecSolver == InitSolver /\ [][NextSolver]_vars

(***************************************************************************)
(* A fourth environment, for the batches: the manager is filled with more  *)
(* constraints, over a[0], a[1], b[0] and b[1], so that there are up to    *)
(* three factors of one to three expressions, and the initial values are   *)
(* asked for in batch mode.                                                *)
(***************************************************************************)
MaxBatchCalls == 3

BatchConstraintInputs ==
  { UltExpr_create(a1, Byte(2)),
    UltExpr_create(b1, Byte(2)),
    UltExpr_create(b0, a0),
    UltExpr_create(a0, Byte(2)) }

\* bool ConstraintManager::addConstraint(ref<Expr> e)
AssertBatchConstraint(e, ub) ==
  /\ cm.status = "ok"
  /\ Asking
  /\ calls < MaxBatchCalls
  /\ LET r == addConstraint(cm, e, ub)
     IN /\ cm' = r.cm
        /\ last' = [NoCall EXCEPT !.op = "addConstraint", !.arg = e,
                                !.ret = r.ret]
  /\ calls' = calls + 1
  /\ UNCHANGED <<ex, compareCache, copy, RewriteEqualities, UseIndependentSolver>>

NextBatch ==
  \/ \E e \in BatchConstraintInputs, ub \in {"segv", "empty"} :
       AssertBatchConstraint(e, ub)
  \/ \E objects \in ObjectLists, fs \in Orders(cm.factors),
        answers \in AnswerLists :
       ComputeInitialValues("BATCH", FalseExpr, objects, fs, answers)

SpecBatch == InitSolver /\ [][NextBatch]_vars

(***************************************************************************)
(* Executor.                                                               *)
(*                                                                         *)
(* ex is the record of the members of the Executor that the halt flag,     *)
(* the solver timeout and fork depend on, with the execution states it     *)
(* owns.  An ExecutionState pointer is a number, NullState the null        *)
(* pointer; es maps every allocated state to its members.  The program     *)
(* under execution is left open: at each step the environment says which   *)
(* instruction the selected state is at.  The run has no seeds, no replay  *)
(* path and no oracle, and the options not named in ex are at their        *)
(* defaults.  TimingSolver and AddressSpace are not part of the sources    *)
(* at hand: the solver is a decision procedure over the constraints of     *)
(* the state that can fail on any query, and address resolution is an      *)
(* outcome the environment picks.                                          *)
(***************************************************************************)
MaxStates == 2

MaxForkDepth == 1

MaxNow == 1

ProgramSize == 2

\* the value of -max-sym-array-size when it is set
SymArrayLimit == 2

\* coreSolverTimeout = time::Span{MaxCoreSolverTime}, a non-zero span
coreSolverTimeout == 1

NullState == 0

\* ExecutionState(KFunction *kf)
InitialState ==
  [pc |-> 0, prevPC |-> 0, depth |-> 0,
   constraints |-> EmptyConstraintManager]

\* what is recorded of the last instruction: the operation, the state it
\* ran on, the pair fork returned, whether the query of fork failed,
\* whether the solver timeout was set, whether a state pointer that was
\* null was dereferenced, and for a memory operation whether the object
\* was resolved, its size, and whether the address was concretized for
\* its size
NoInstruction ==
  [op |-> "none", cur |-> NullState, first |-> NullState,
   second |-> NullState, failed |-> FALSE, timed |-> FALSE,
   derefNull |-> FALSE, resolved |-> FALSE, size |-> 0,
   concretized |-> FALSE, ret |-> FALSE]

\* Executor::Executor: the halt timer is added to timers when max-time is
\* not zero
Executor(maxTime, maxDepth, maxSymArraySize, callSolver, exitOnError) ==
  [phase |-> "constructed",
   MaxTime |-> maxTime, MaxDepth |-> maxDepth,
   MaxSymArraySize |-> maxSymArraySize, CallSolver |-> callSolver,
   ExitOnErrorType |-> exitOnError,
   timers |-> IF maxTime # 0 THEN {maxTime} ELSE {},
   haltExecution |-> FALSE,
   now |-> 0,
   states |-> {}, addedStates |-> <<>>, removedStates |-> <<>>,
   es |-> <<>>,
   timeout |-> 0,
   at |-> "loop",
   i |-> NoInstruction]

\* solver->setTimeout(t)
setTimeout(x, t) ==
  [x EXCEPT !.timeout = t, !.i.timed = @ \/ t # 0]

\* the state pointers of the vector q without s
without(q, s) ==
  LET keep(o) == o # s IN SelectSeq(q, keep)

\* Executor::terminateState: a state the searcher knows is queued for
\* removal with its pc put back, a state that was added in this step is
\* deleted at once
terminateState(x, s) ==
  IF s \notin SeqToSet(x.addedStates)
    THEN [x EXCEPT !.es[s].pc = x.es[s].prevPC,
                   !.removedStates = Append(@, s)]
    ELSE [x EXCEPT !.addedStates = without(@, s),
                   !.es = [o \in (DOMAIN x.es) \ {s} |-> x.es[o]]]

\* Executor::terminateStateEarly (the test case goes to the handler)
terminateStateEarly(x, s) == terminateState(x, s)

\* Executor::terminateStateOnError: shouldExitOn(termReason) sets the halt
\* flag
terminateStateOnError(x, s, termReason) ==
  [terminateState(x, s) EXCEPT
     !.haltExecution = @ \/ termReason \in x.ExitOnErrorType]

\* Executor::addConstraint(state, condition): the executor after the call
\* and the value returned; a constant condition is not added, and one that
\* is not true is a fatal error
Executor_addConstraint(x, s, condition, ub) ==
  IF isConstant(condition)
    THEN [x |-> IF isTrue(condition) THEN x ELSE [x EXCEPT !.phase = "fatal"],
          ret |-> FALSE]
  ELSE LET added(r) ==
             [x |-> [x EXCEPT !.es[s].constraints = r.cm,
                              !.phase = IF r.cm.status = "ok" THEN @
                                        ELSE r.cm.status],
              ret |-> r.ret]
       IN added(addConstraint(x.es[s].constraints, condition, ub))

\* the pointer operator new returns: a state number not in use
newState(x) ==
  CHOOSE n \in 1 .. MaxStates :
    /\ n \notin DOMAIN x.es
    /\ \A o \in 1 .. MaxStates : o \notin DOMAIN x.es => n <= o

\* falseState = trueState->branch(); addedStates.push_back(falseState):
\* the depth of the state is incremented and the new state is a copy of it
branch(x, s) ==
  LET parent == [x.es[s] EXCEPT !.depth = @ + 1]
      child == [parent EXCEPT
                  !.constraints = ConstraintManagerCopy(@).cm]
      n == newState(x)
  IN [x EXCEPT
        !.es = [o \in (DOMAIN x.es) \cup {n} |->
                  IF o = n THEN child ELSE IF o = s THEN parent
                  ELSE x.es[o]],
        !.addedStates = Append(@, n)]

\* the max-depth check at the end of fork, trueState and falseState being
\* null when the constraint could not be added.  A null pointer that is
\* dereferenced is undefined behaviour: the process dies (nb = "segv"), or
\* the read through it yields a depth below the limit and the write
\* through it is lost (nb = "skip")
maxDepthCheck(x, trueState, falseState, nb) ==
  IF x.MaxDepth = 0
    THEN [x |-> x, first |-> trueState, second |-> falseState]
  ELSE IF trueState = NullState
    THEN [x |-> [x EXCEPT !.i.derefNull = TRUE,
                          !.phase = IF nb = "segv" THEN "segv" ELSE @],
          first |-> trueState, second |-> falseState]
  ELSE IF x.MaxDepth <= x.es[trueState].depth
    THEN IF falseState = NullState
           THEN [x |-> [terminateStateEarly(x, trueState) EXCEPT
                          !.i.derefNull = TRUE,
                          !.phase = IF nb = "segv" THEN "segv" ELSE @],
                 first |-> NullState, second |-> NullState]
           ELSE [x |-> terminateStateEarly(
                         terminateStateEarly(x, trueState), falseState),
                 first |-> NullState, second |-> NullState]
  ELSE [x |-> x, first |-> trueState, second |-> falseState]

\* a faulty fork that leaves the state alone when its query fails
forkFailed_Continue(x, current) ==
  [x |-> [x EXCEPT !.i.failed = TRUE],
   first |-> current, second |-> NullState]

\* fork when solver->evaluate failed: the pc is put back, the state is
\* terminated early and the pair of null pointers is returned
forkFailed(x, current) ==
  [x |-> terminateStateEarly(
           [x EXCEPT !.es[current].pc = x.es[current].prevPC,
                     !.i.failed = TRUE], current),
   first |-> NullState, second |-> NullState]

\* Executor::fork(current, condition, isInternal).  env holds what the
\* environment decides: shouldRecord (current.shouldRecord()), q (whether
\* the solver answers the query), ub and nb (the outcome of undefined
\* behaviour in the constraint manager and in fork)
fork(x, current, condition, isInternal, env) ==
  LET callsSolver == x.CallSolver \/ ~env.shouldRecord \/ isInternal
      falseAdded(f, trueState) ==
        IF f.x.phase # "running"
          THEN [x |-> f.x, first |-> NullState, second |-> NullState]
        ELSE maxDepthCheck(f.x, trueState,
                           IF f.ret THEN newState(x) ELSE NullState, env.nb)
      trueAdded(t) ==
        IF t.x.phase # "running"
          THEN [x |-> t.x, first |-> NullState, second |-> NullState]
        ELSE falseAdded(
               Executor_addConstraint(t.x, newState(x),
                                      createIsZero(condition), env.ub),
               IF t.ret THEN current ELSE NullState)
      decided(x1, res) ==
        IF res = "fail" THEN forkFailed(x1, current)
        ELSE IF res = "True"
          THEN [x |-> x1, first |-> current, second |-> NullState]
        ELSE IF res = "False"
          THEN [x |-> x1, first |-> NullState, second |-> current]
        ELSE trueAdded(Executor_addConstraint(branch(x1, current), current,
                                              condition, env.ub))
  IN decided(IF callsSolver
               THEN setTimeout(setTimeout(x, coreSolverTimeout), 0)
             ELSE x,
             IF callsSolver
               THEN (IF env.q = "fail" THEN "fail"
                     ELSE impl_computeValidity(
                            x.es[current].constraints.constraints, condition))
             ELSE IF ~isConstant(condition) THEN "Unknown"
             ELSE IF isTrue(condition) THEN "True" ELSE "False")

\* a faulty toUnique that returns without resetting the timeout when the
\* solver fails
toUnique_Leak(x, s, e, env) ==
  IF isConstant(e) THEN [x |-> x, result |-> e]
  ELSE IF env.qv = "fail" \/ Models(x.es[s].constraints.constraints) = {}
    THEN [x |-> setTimeout(x, coreSolverTimeout), result |-> e]
  ELSE [x |-> setTimeout(setTimeout(x, coreSolverTimeout), 0), result |-> e]

\* the value solver->getValue answers with for e, one of those e takes
\* under the constraints vs being the set of them
valueOf(vs, least, w) ==
  ConstantExpr_alloc(IF least THEN CHOOSE v \in vs : \A o \in vs : v <= o
                     ELSE CHOOSE v \in vs : \A o \in vs : v >= o, w)

\* Executor::toUnique(state, e): the value of e when the solver shows that
\* e has one value only, e otherwise; the state is const
toUnique(x, s, e, env) ==
  IF isConstant(e) THEN [x |-> x, result |-> e]
  ELSE LET valued(vs) ==
             [x |-> setTimeout(setTimeout(x, coreSolverTimeout), 0),
              result |-> IF env.qv = "ok" /\ env.q = "ok"
                            /\ Cardinality(vs) = 1
                           THEN valueOf(vs, env.least, e.width) ELSE e]
       IN valued(impl_computeValue(x.es[s].constraints.constraints, e))

\* Executor::toConstant(state, e, reason): e simplified when that is a
\* constant; otherwise a value the solver picks, which e is then
\* constrained to; an assertion fails when the solver fails
toConstant(x, s, e, env) ==
  LET valued(x1, e1, vs) ==
        IF env.qv = "fail" \/ vs = {}
          THEN [x |-> [x1 EXCEPT !.phase = "assert"], value |-> e1]
        ELSE [x |-> Executor_addConstraint(
                      x1, s,
                      EqExpr_create(e1, valueOf(vs, env.least, e1.width)),
                      env.ub).x,
              value |-> valueOf(vs, env.least, e1.width)]
      simplified(r) ==
        IF isConstant(r.e)
          THEN [x |-> [x EXCEPT !.es[s].constraints = r.cm], value |-> r.e]
        ELSE valued([x EXCEPT !.es[s].constraints = r.cm], r.e,
                    impl_computeValue(r.cm.constraints, r.e))
  IN simplified(simplifyExpr(x.es[s].constraints, e))

\* command line option -oob-check
DoOutofBoundaryCheck == TRUE

\* MaxSymArraySize && mo->size >= MaxSymArraySize
exceedsMaxSymArraySize(x, size) ==
  x.MaxSymArraySize # 0 /\ size >= x.MaxSymArraySize

\* the error path of Executor::executeMemoryOperation: the address is
\* resolved to the objects of the list rl (env.rl of them) and the state
\* is forked on the bounds of each
memoryErrorFork(x, state, env) ==
  LET resolved == setTimeout(setTimeout(x, coreSolverTimeout), 0)
  IN IF env.rl = 0
       THEN [x |-> resolved, first |-> NullState, second |-> state]
     ELSE fork(resolved, state, env.inBoundsExpr, TRUE, env)

\* the access of the state bound to the object (a write to a read-only
\* object is an error), and the state that stays unbound is terminated
memoryError(branches, env) ==
  LET finish(x1, unbound) ==
        IF x1.phase # "running" \/ unbound = NullState THEN x1
        ELSE IF env.incomplete THEN terminateStateEarly(x1, unbound)
        ELSE terminateStateOnError(x1, unbound, "Ptr")
  IN IF branches.first # NullState /\ env.readOnlyWrite
          /\ branches.x.phase = "running"
       THEN finish(terminateStateOnError(branches.x, branches.first,
                                         "ReadOnly"), branches.second)
     ELSE finish(branches.x, branches.second)

\* Executor::executeMemoryOperation(state, isWrite, address, value,
\* target) in its four parts.  env holds what the address space and the
\* solver do: r1 (resolveOne: it finds the object, finds none, or the
\* solver fails), found2 (resolveOne of the concretized address), size
\* (mo->size), qb and inBounds (the bounds query), readOnlyWrite (a write
\* to a read-only object), rl and incomplete (resolve), inBoundsExpr
\* (mo->getBoundsCheckPointer)

\* the fast path: resolveOne under the timeout, of the address made
\* constant when the solver failed
fastPath(x, state, address, env) ==
  LET reset(c, success) ==
        [x |-> IF c.x.phase = "running" THEN setTimeout(c.x, 0) ELSE c.x,
         address |-> c.value, success |-> success]
  IN IF env.r1 = "fail"
       THEN reset(toConstant(setTimeout(x, coreSolverTimeout), state,
                             address, env), env.found2)
     ELSE reset([x |-> setTimeout(x, coreSolverTimeout), value |-> address],
                env.r1 = "found")

\* if (success): the address is made constant when the object is too
\* large for symbolic accesses
concretizeAddress(r, state, env) ==
  IF r.x.phase # "running" \/ ~r.success THEN r
  ELSE LET sized(x1) == [x1 EXCEPT !.i.resolved = TRUE, !.i.size = env.size]
           constant(c) ==
             [r EXCEPT !.x = sized([c.x EXCEPT !.i.concretized = TRUE]),
                       !.address = c.value]
       IN IF exceedsMaxSymArraySize(r.x, env.size)
            THEN constant(toConstant(r.x, state, r.address, env))
          ELSE [r EXCEPT !.x = sized(r.x)]

\* the bounds check and the access in bounds; error says that the error
\* path is to follow
boundsCheck(r, state, env) ==
  LET checked(x3, x4) ==
        IF DoOutofBoundaryCheck /\ env.qb = "fail"
          THEN [x |-> terminateStateEarly(
                        [x4 EXCEPT !.es[state].pc = x4.es[state].prevPC],
                        state),
                error |-> FALSE]
        ELSE IF ~DoOutofBoundaryCheck \/ env.inBounds
          THEN [x |-> IF env.readOnlyWrite
                        THEN terminateStateOnError(
                               IF DoOutofBoundaryCheck THEN x4 ELSE x3,
                               state, "ReadOnly")
                      ELSE IF DoOutofBoundaryCheck THEN x4 ELSE x3,
                error |-> FALSE]
        ELSE [x |-> x4, error |-> TRUE]
  IN IF r.x.phase # "running" THEN [x |-> r.x, error |-> FALSE]
     ELSE IF ~r.success THEN [x |-> r.x, error |-> TRUE]
     ELSE checked(r.x, setTimeout(setTimeout(r.x, coreSolverTimeout), 0))

\* Executor::getSymbolicSolution(state, res): a copy of the state is
\* constrained by the preference env.pref unless it is implied or the
\* solver fails, and the initial values are asked for; returns false when
\* the solver fails to give them
getSymbolicSolution(x, s, env) ==
  LET timed == setTimeout(x, coreSolverTimeout)
      solved(status) ==
        IF status # "ok"
          THEN [x |-> [timed EXCEPT !.phase = status], ret |-> FALSE]
        ELSE [x |-> setTimeout(timed, 0), ret |-> env.qi = "ok"]
      tmp(m) ==
        IF env.q = "fail"
             \/ impl_computeTruth(m.constraints, createIsZero(env.pref))
          THEN solved("ok")
        ELSE solved(addConstraint(m, env.pref, env.ub).cm.status)
  IN tmp(ConstraintManagerCopy(x.es[s].constraints).cm)

\* Executor::stepInstruction: the pc advances (the program is a loop of
\* ProgramSize instructions)
stepInstruction(x, s) ==
  [x EXCEPT !.es[s].prevPC = x.es[s].pc,
            !.es[s].pc = (x.es[s].pc + 1) % ProgramSize]

\* Executor::updateStates: the added states join states, the removed ones
\* leave it and are deleted; a removed state that is not in states fails
\* an assertion
RECURSIVE removeStates(_)
removeStates(x) ==
  IF x.removedStates = <<>> THEN x
  ELSE LET s == Head(x.removedStates)
       IN IF s \notin x.states THEN [x EXCEPT !.phase = "assert"]
          ELSE removeStates(
                 [x EXCEPT !.removedStates = Tail(@),
                           !.states = @ \ {s},
                           !.es = [o \in (DOMAIN x.es) \ {s} |-> x.es[o]]])

updateStates(x) ==
  removeStates([x EXCEPT !.states = @ \cup SeqToSet(x.addedStates),
                         !.addedStates = <<>>])

\* command line option -dump-states-on-halt
DumpStatesOnHalt == TRUE

\* Executor::doDumpStates
RECURSIVE terminateAll(_, _)
terminateAll(x, ss) ==
  IF ss = <<>> THEN x
  ELSE terminateAll(terminateStateEarly(x, Head(ss)), Tail(ss))

doDumpStates(x) ==
  IF ~DumpStatesOnHalt \/ x.states = {} THEN x
  ELSE updateStates(terminateAll(x, SetToSeq(x.states)))

(***************************************************************************)
(* The environment of the Executor: it is constructed under any of the    *)
(* options, run is called, and the loop of run steps the states through    *)
(* branches, memory operations, calls of toUnique, returns and other       *)
(* instructions, while the wall clock advances and the handler asks for    *)
(* the solution of a state.  The loop of run is two steps: the             *)
(* instruction (ex.at = "loop") and updateStates (ex.at = "executed").     *)
(***************************************************************************)
CondInputs ==
  { EqExpr_create(Byte(1), a1),
    UltExpr_create(a1, Byte(1)) }

AddressInputs == { Byte(0), a1 }

ObjectSizes == { SymArrayLimit - 1, SymArrayLimit, SymArrayLimit + 1 }

Env0 ==
  [shouldRecord |-> TRUE, q |-> "ok", qv |-> "ok", qi |-> "ok", qb |-> "ok",
   least |-> TRUE, ub |-> "segv", nb |-> "segv", r1 |-> "found",
   found2 |-> TRUE, size |-> SymArrayLimit, inBounds |-> TRUE,
   readOnlyWrite |-> FALSE, rl |-> 0, incomplete |-> FALSE,
   inBoundsExpr |-> UltExpr_create(b0, Byte(2)),
   pref |-> UltExpr_create(b0, Byte(2))]

ForkEnvs ==
  { [Env0 EXCEPT !.shouldRecord = r, !.q = q, !.nb = nb, !.ub = ub] :
      r \in BOOLEAN, q \in {"ok", "fail"}, nb \in {"segv", "skip"},
      ub \in {"segv", "empty"} }

\* the memory operations: resolved in bounds, the bounds query fails,
\* resolved to nothing or out of bounds, the first resolution fails
MemoryEnvs ==
  { [Env0 EXCEPT !.size = n, !.readOnlyWrite = w] :
      n \in ObjectSizes, w \in BOOLEAN }
  \cup { [Env0 EXCEPT !.size = n, !.qb = "fail"] : n \in ObjectSizes }
  \cup { [Env0 EXCEPT !.r1 = r, !.inBounds = FALSE, !.incomplete = i] :
           r \in {"found", "none"}, i \in BOOLEAN }
  \cup { [Env0 EXCEPT !.r1 = "none", !.rl = 1, !.incomplete = i, !.q = q,
                      !.readOnlyWrite = w] :
           i \in BOOLEAN, q \in {"ok", "fail"}, w \in BOOLEAN }
  \cup { [Env0 EXCEPT !.r1 = "fail", !.found2 = f, !.qv = q] :
           f \in BOOLEAN, q \in {"ok", "fail"} }

UniqueEnvs ==
  { [Env0 EXCEPT !.qv = v, !.q = q] :
      v \in {"ok", "fail"}, q \in {"ok", "fail"} }

SolutionEnvs ==
  { [Env0 EXCEPT !.q = q, !.qi = i, !.pref = p] :
      q \in {"ok", "fail"}, i \in {"ok", "fail"}, p \in CondInputs }

\* the Executor with max-time, max-sym-array-size and exit-on-error-type
\* set, and with call-solver off and max-depth set
Executors ==
  { Executor(MaxNow, 0, SymArrayLimit, TRUE, {"Ptr", "ReadOnly"}),
    Executor(0, MaxForkDepth, 0, FALSE, {}) }

\* Executor::Executor under each of these options
InitRun ==
  /\ RewriteEqualities = TRUE
  /\ UseIndependentSolver = TRUE
  /\ cm = EmptyConstraintManager
  /\ calls = 0
  /\ last = NoCall
  /\ copy = NoCopy
  /\ compareCache = NoCompareCache
  /\ ex \in Executors

\* the wall clock advances (where a timer waits for it)
Tick ==
  /\ ex.phase = "running"
  /\ ex.timers # {}
  /\ ex.now < MaxNow
  /\ ex' = [ex EXCEPT !.now = @ + 1]
  /\ UNCHANGED <<RewriteEqualities, UseIndependentSolver, cm, calls, last,
                 copy, compareCache>>

\* Executor::run up to the loop: the initial state is inserted
Run ==
  /\ ex.phase = "constructed"
  /\ ex' = [ex EXCEPT !.phase = "running",
                      !.states = {1},
                      !.es = [o \in {1} |-> InitialState]]
  /\ UNCHANGED <<RewriteEqualities, UseIndependentSolver, cm, calls, last,
                 copy, compareCache>>

\* while (!states.empty() && !haltExecution)
Looping ==
  /\ ex.phase = "running" /\ ex.at = "loop"
  /\ ex.states # {} /\ ~ex.haltExecution

\* searcher->selectState() gave s; stepInstruction(state)
selected(s, op) ==
  [stepInstruction(ex, s) EXCEPT
     !.i = [NoInstruction EXCEPT !.op = op, !.cur = s]]

\* the state s can be forked within the bounds
CanFork(s) ==
  /\ Cardinality(DOMAIN ex.es) < MaxStates
  /\ ex.es[s].depth < MaxForkDepth

\* fork asks the solver and the solver fails, so that no state is made
QueryFails(env) ==
  (ex.CallSolver \/ ~env.shouldRecord) /\ env.q = "fail"

\* case Instruction::Br, conditional: fork and transferToBasicBlock for
\* the states fork returned
ExecuteBr(s, cond, env) ==
  /\ Looping /\ s \in ex.states
  /\ CanFork(s) \/ QueryFails(env)
  /\ LET branched(r) ==
           IF r.x.phase # "running"
             THEN [r.x EXCEPT !.i.first = r.first, !.i.second = r.second,
                              !.at = "executed"]
           ELSE [r.x EXCEPT
                   !.i.first = r.first, !.i.second = r.second,
                   !.at = "executed",
                   !.es = [o \in DOMAIN r.x.es |->
                             IF o = r.first
                               THEN [r.x.es[o] EXCEPT !.pc = 0]
                             ELSE IF o = r.second
                               THEN [r.x.es[o] EXCEPT
                                       !.pc = ProgramSize - 1]
                             ELSE r.x.es[o]]]
     IN \E r \in { fork(selected(s, "fork"), s, cond, FALSE, env) } :
          ex' = branched(r)
  /\ UNCHANGED <<RewriteEqualities, UseIndependentSolver, cm, calls, last,
                 copy, compareCache>>

\* an instruction that loads or stores: executeMemoryOperation
ExecuteMemoryOperation(s, address, env) ==
  /\ Looping /\ s \in ex.states
  /\ env.rl # 0 => CanFork(s)
  /\ \E r \in { fastPath(selected(s, "executeMemoryOperation"), s,
                          address, env) } :
       \E c \in { concretizeAddress(r, s, env) } :
         \E b \in { boundsCheck(c, s, env) } :
           IF b.error
             THEN \E branches \in { memoryErrorFork(b.x, s, env) } :
                    ex' = [memoryError(branches, env)
                             EXCEPT !.at = "executed"]
           ELSE ex' = [b.x EXCEPT !.at = "executed"]
  /\ UNCHANGED <<RewriteEqualities, UseIndependentSolver, cm, calls, last,
                 copy, compareCache>>

\* an instruction that calls toUnique on an operand
ExecuteToUnique(s, e, env) ==
  /\ Looping /\ s \in ex.states
  /\ ex' = [toUnique(selected(s, "toUnique"), s, e, env).x
              EXCEPT !.at = "executed"]
  /\ UNCHANGED <<RewriteEqualities, UseIndependentSolver, cm, calls, last,
                 copy, compareCache>>

\* case Instruction::Ret in the initial frame: terminateStateOnExit
ExecuteRet(s) ==
  /\ Looping /\ s \in ex.states
  /\ ex' = [terminateState(selected(s, "ret"), s) EXCEPT !.at = "executed"]
  /\ UNCHANGED <<RewriteEqualities, UseIndependentSolver, cm, calls, last,
                 copy, compareCache>>

\* any other instruction
ExecuteOther(s) ==
  /\ Looping /\ s \in ex.states
  /\ ex' = [selected(s, "other") EXCEPT !.at = "executed"]
  /\ UNCHANGED <<RewriteEqualities, UseIndependentSolver, cm, calls, last,
                 copy, compareCache>>

\* the end of the loop body: updateStates(&state).  The call
\* timers.invoke() that stood before it is commented out
UpdateStates ==
  /\ ex.phase = "running" /\ ex.at = "executed"
  /\ ex' = [updateStates(ex) EXCEPT !.at = "loop", !.i = NoInstruction]
  /\ UNCHANGED <<RewriteEqualities, UseIndependentSolver, cm, calls, last,
                 copy, compareCache>>

\* the loop is left: doDumpStates and run returns
RunReturn ==
  /\ ex.phase = "running" /\ ex.at = "loop"
  /\ ex.states = {} \/ ex.haltExecution
  /\ LET dumped(x) ==
           [x EXCEPT !.phase = IF @ = "running" THEN "returned" ELSE @]
     IN ex' = dumped(doDumpStates(ex))
  /\ UNCHANGED <<RewriteEqualities, UseIndependentSolver, cm, calls, last,
                 copy, compareCache>>

\* the handler asks for the solution of the state s, which the last
\* instruction terminated (InterpreterHandler::processTestCase)
GetSymbolicSolution(s, env) ==
  /\ ex.phase = "running" /\ ex.at = "executed"
  /\ s \in DOMAIN ex.es /\ s \in SeqToSet(ex.removedStates)
  /\ ex.i.op # "getSymbolicSolution"
  /\ LET solved(r) ==
           [r.x EXCEPT !.i.op = "getSymbolicSolution", !.i.cur = s,
                       !.i.ret = r.ret]
     IN ex' = solved(getSymbolicSolution(
                       [ex EXCEPT !.i = NoInstruction], s, env))
  /\ UNCHANGED <<RewriteEqualities, UseIndependentSolver, cm, calls, last,
                 copy, compareCache>>

\* the steps of Executor::run
RunStep ==
  \/ Run
  \/ \E s \in 1 .. MaxStates, cond \in CondInputs, env \in ForkEnvs :
       ExecuteBr(s, cond, env)
  \/ \E s \in 1 .. MaxStates, address \in AddressInputs, env \in MemoryEnvs :
       ExecuteMemoryOperation(s, address, env)
  \/ \E s \in 1 .. MaxStates, env \in UniqueEnvs :
       ExecuteToUnique(s, a1, env)
  \/ \E s \in 1 .. MaxStates : ExecuteRet(s)
  \/ \E s \in 1 .. MaxStates : ExecuteOther(s)
  \/ UpdateStates
  \/ RunReturn

NextRun ==
  \/ Tick
  \/ RunStep
  \/ \E s \in 1 .. MaxStates, env \in SolutionEnvs :
       GetSymbolicSolution(s, env)

SpecRun == InitRun /\ [][NextRun]_vars

\* the steps of run that are there for every instruction.  Whenever a
\* step of run is enabled one of these is, and every second step of run in
\* the loop is UpdateStates
LoopStep ==
  \/ Run
  \/ \E s \in 1 .. MaxStates : ExecuteOther(s)
  \/ UpdateStates
  \/ RunReturn

\* run is one thread that goes on as long as it can: weak fairness of
\* RunStep, which the fairness of LoopStep amounts to
SpecRunFair == SpecRun /\ WF_vars(LoopStep)

(***************************************************************************)
(* Properties.                                                             *)
(***************************************************************************)
\* the calls made so far have all returned
Returned == cm.status = "ok"

\* the (array, index) pairs a factor covers; a whole-object reference
\* covers every index of the array
CoveredCells(f) ==
  {c \in Cells : \/ c[1] \in f.wholeObjects
                 \/ c[1] \in DOMAIN f.elements /\ c[2] \in f.elements[c[1]]}

\* the factors whose expression list holds e
FactorsHolding(e) == {f \in cm.factors : e \in BagToSet(f.exprs)}

\* C1: with the independent solver enabled, after any sequence of calls
\* every expression of the constraint sequence is in the expression list of
\* exactly one factor, and the factors' expression lists together hold
\* exactly the expressions of the constraint sequence.
C1_FactorCompleteness ==
  (UseIndependentSolver /\ Returned) =>
    /\ \A e \in SeqToSet(cm.constraints) : Cardinality(FactorsHolding(e)) = 1
    /\ UNION {BagToSet(f.exprs) : f \in cm.factors} = SeqToSet(cm.constraints)

\* C1 witness: a call rewrote held constraints and the partition has two
\* factors
C1_Witness ==
  /\ UseIndependentSolver /\ Returned
  /\ last.op = "addConstraint" /\ last.ret
  /\ Cardinality(cm.factors) >= 2
  /\ Len(cm.constraints) >= 3
  /\ EqExpr_create(Byte(1), b0) \in SeqToSet(cm.constraints)

\* C2: with the independent solver enabled, after any sequence of calls no
\* two distinct factors share an (array, index) pair.
C2_FactorDisjointness ==
  (UseIndependentSolver /\ Returned) =>
    \A f \in cm.factors, g \in cm.factors :
      f # g => CoveredCells(f) \cap CoveredCells(g) = {}

\* C2 witness: after a call that rewrote a held constraint there are two
\* factors
C2_Witness ==
  /\ UseIndependentSolver /\ Returned
  /\ last.op = "addConstraint" /\ last.ret
  /\ Cardinality(cm.factors) >= 2
  /\ UltExpr_create(Byte(1), a1) \in SeqToSet(cm.constraints)

\* every representative entry points to a factor of the partition that
\* holds the expression (no null and no dangling pointer between calls)
RepresentativeSound ==
  (UseIndependentSolver /\ Returned) =>
    \A e \in DOMAIN cm.representative :
      /\ cm.representative[e] \in cm.factors
      /\ e \in BagToSet(cm.representative[e].exprs)

\* a step that is one call of addConstraint
AddStep == calls' = calls + 1 /\ last'.op = "addConstraint"

\* a step that leaves the constraint sequence, the equalities map and the
\* factor partition as they were
SameManager ==
  /\ cm'.constraints = cm.constraints
  /\ cm'.equalities = cm.equalities
  /\ cm'.factors = cm.factors

\* C4: after any sequence of calls the constraint sequence holds no
\* expression twice.
C4_NoDuplicates ==
  Returned =>
    \A i \in 1 .. Len(cm.constraints), j \in 1 .. Len(cm.constraints) :
      i # j => cm.constraints[i] # cm.constraints[j]

\* C5 as stated: a call whose argument simplifies to constant false returns
\* false, one whose argument simplifies to constant true returns true, and
\* both leave the manager as it was.
C5_ConstantArgument ==
  [][AddStep =>
       LET s == simplifyExpr(cm, last'.arg).e
       IN /\ s = FalseExpr => (cm'.status = "ok" /\ ~last'.ret /\ SameManager)
          /\ s = TrueExpr => (cm'.status = "ok" /\ last'.ret /\ SameManager)]_vars

\* C5 amended: an argument that has a representative entry (it is already
\* held) returns true before it is simplified; any other argument that
\* simplifies to constant false returns false, one that simplifies to
\* constant true returns true; the manager is as it was in all three cases.
C5_ConstantArgumentNotHeld ==
  [][AddStep =>
       LET s == simplifyExpr(cm, last'.arg).e
           held == last'.arg \in DOMAIN cm.representative
       IN /\ held => (cm'.status = "ok" /\ last'.ret /\ SameManager)
          /\ (~held /\ s = FalseExpr) =>
               (cm'.status = "ok" /\ ~last'.ret /\ SameManager)
          /\ (~held /\ s = TrueExpr) =>
               (cm'.status = "ok" /\ last'.ret /\ SameManager)]_vars

\* C5 witness: a manager that holds constraints has refused a call (only an
\* argument that simplifies to constant false is refused)
C5_Witness ==
  /\ Returned
  /\ last.op = "addConstraint" /\ ~last.ret
  /\ cm.constraints # <<>>
  /\ cm.equalities # <<>>

\* the simplified argument e is Eq(const, rhs), and replacing rhs by const
\* in a held constraint gives constant false
RewriteFalsifies(m, e) ==
  LET s == simplifyExpr(m, e).e
  IN /\ RewriteEqualities
     /\ e \notin DOMAIN m.representative
     /\ m.old = <<>>
     /\ s.kind = "Eq" /\ isConstant(s.kids[1]) /\ s.kids[2].kind # "Eq"
     /\ \E i \in 1 .. Len(m.constraints) :
          isFalse(visit(ExprReplaceVisitor(s.kids[2], s.kids[1]),
                        [visitedUN |-> <<>>, replacedUN |-> {}],
                        m.constraints[i]).e)

\* C6: a call that adds Eq(const, rhs) and thereby rewrites a held
\* constraint to constant false completes and returns false.
C6_RewriteToFalseReturnsFalse ==
  [][(AddStep /\ RewriteFalsifies(cm, last'.arg)) =>
       (cm'.status = "ok" /\ ~last'.ret)]_vars

\* C7: when addConstraint(e) has returned true, an immediately following
\* addConstraint(e) returns true and leaves the manager as it was.
C7_AddTwice ==
  [][(AddStep /\ Returned /\ last.op = "addConstraint" /\ last.ret
      /\ last'.arg = last.arg) =>
       (cm'.status = "ok" /\ last'.ret /\ SameManager)]_vars

\* C8: simplifying the result of simplifyExpr again gives the same
\* expression, also for expressions that read through update lists.
C8_SimplifyIdempotent ==
  (Returned /\ last.op = "simplifyExpr") =>
    simplifyExpr(cm, last.res).e = last.res

\* C8 witness: a read through an update list was simplified with an
\* update-node map filled under older equalities, and the result differs
\* from the argument and from what an empty map gives
C8_Witness ==
  /\ Returned /\ last.op = "simplifyExpr"
  /\ last.res # last.arg
  /\ simplifyExpr([cm EXCEPT !.visitedUN = <<>>], last.arg).e # last.res

\* the byte assignments that satisfy every held constraint
Satisfying(m) == Models(m.constraints)

\* C9: under every byte assignment that satisfies all held constraints, e
\* and simplifyExpr(e) evaluate to the same value.
C9_SimplifySound ==
  (Returned /\ last.op = "simplifyExpr") =>
    \A A \in Satisfying(cm) : Eval(last.arg, A) = Eval(last.res, A)

\* C9 witness: the held constraints are satisfiable, and the simplifier has
\* replaced a read through an update list by a constant
C9_Witness ==
  /\ Returned /\ last.op = "simplifyExpr"
  /\ Satisfying(cm) # {}
  /\ last.arg = UltExpr_create(UpdateRead, Byte(2))
  /\ isConstant(last.res)

\* the answer the last query got from the constraints the filter selected
\* is the answer the inner solver gives from the full constraint sequence
\* (for a value: the call succeeds iff the full sequence has a model, and
\* the value is the value of the expression in a model of the full sequence)
FilteredAnswerIsFullAnswer ==
  /\ last.op = "computeValidity" =>
       last.result = impl_computeValidity(cm.constraints, last.arg)
  /\ last.op = "computeTruth" =>
       last.isValid = impl_computeTruth(cm.constraints, last.arg)
  /\ last.op = "computeValue" =>
       /\ last.ret = (impl_computeValue(cm.constraints, last.arg) # {})
       /\ last.ret => last.value \in impl_computeValue(cm.constraints, last.arg)

\* C3 as stated: in every manager state reachable by addConstraint calls and
\* for every query expression, the validity / truth / value answer from the
\* filtered constraints equals the answer from the full constraint sequence.
C3_IndependentQuerySound == Returned => FilteredAnswerIsFullAnswer

\* C3 amended: the answers are equal whenever the full constraint sequence
\* is satisfiable.
C3_IndependentQuerySoundWhenSatisfiable ==
  (Returned /\ Satisfying(cm) # {}) => FilteredAnswerIsFullAnswer

\* C3 witness: a validity query was decided from a proper, non-empty part of
\* a satisfiable constraint sequence
C3_Witness ==
  /\ Returned /\ last.op = "computeValidity"
  /\ Satisfying(cm) # {}
  /\ last.required # <<>>
  /\ Len(last.required) < Len(cm.constraints)
  /\ last.result = "True"

\* C10: when computeInitialValues returns success with hasSolution set,
\* every constraint of the query and the negated query expression evaluate
\* to constant true under the returned byte vectors (taken together with
\* the bytes found for the arrays that objects does not name).
C10_InitialValuesSatisfy ==
  (Returned /\ last.op = "computeInitialValues" /\ last.ret
   /\ last.hasSolution) =>
    LET assign == Assignment(last.objects, last.values, last.retMap)
    IN /\ \A i \in 1 .. Len(cm.constraints) :
            evaluate(assign, cm.constraints[i]) = TrueExpr
       /\ evaluate(assign, createIsZero(last.arg)) = TrueExpr


\* the last call is a computeInitialValues whose factor queries all
\* succeeded, so that values was filled and handed to the verification step
Verified ==
  /\ last.op = "computeInitialValues"
  /\ \A i \in 1 .. Len(last.inner) : last.inner[i] = "sat"
  /\ Len(last.values) = Len(last.objects)

\* the expressions the verification step evaluates: the source constraints
\* and the negated query
VerifiedExprs == SeqToSet(cm.constraints) \cup {createIsZero(last.arg)}

\* C11: when, in the verification step, a source constraint or the negated
\* query evaluates under the merged assignment to a non-constant expression
\* or to constant false, the call aborts and does not return success.
C11_VerificationAborts ==
  Verified =>
    LET assign == Assignment(last.objects, last.values, last.retMap)
    IN (\E e \in VerifiedExprs :
          ~isConstant(evaluate(assign, e)) \/ isFalse(evaluate(assign, e)))
         => (cm.status = "assert" /\ ~last.ret)

\* the outcome o is the outcome of the last inner query of the call, and of
\* no earlier one
EndsWith(o) ==
  /\ last.inner # <<>>
  /\ last.inner[Len(last.inner)] = o
  /\ \A i \in 1 .. (Len(last.inner) - 1) : last.inner[i] = "sat"

\* C12: when the inner solver reports hasSolution = false for a factor query
\* or a batch query, computeInitialValues returns with hasSolution = false
\* and an empty values vector, and that query is the last inner query.
C12_NoSolutionStops ==
  (last.op = "computeInitialValues"
   /\ \E i \in 1 .. Len(last.inner) : last.inner[i] = "unsat") =>
    /\ cm.status = "ok" /\ last.ret
    /\ ~last.hasSolution
    /\ last.values = <<>>
    /\ EndsWith("unsat")

\* C12 witness: the manager has two factors, the query of the first found
\* no model and the second was not queried
C12_Witness ==
  /\ last.op = "computeInitialValues" /\ last.type = "PER_FACTOR"
  /\ last.arg = FalseExpr
  /\ Len(last.fs) = 2
  /\ last.inner = <<"unsat">>
  /\ ~last.hasSolution

\* C13: when an inner solver call fails, computeInitialValues returns false
\* with an empty values vector, and that call is the last inner query.
C13_FailureStops ==
  (last.op = "computeInitialValues"
   /\ \E i \in 1 .. Len(last.inner) : last.inner[i] = "fail") =>
    /\ cm.status = "ok" /\ ~last.ret
    /\ last.values = <<>>
    /\ EndsWith("fail")

\* C13 witness: the manager has two factors, the query of the first failed
\* and the second was not queried
C13_Witness ==
  /\ last.op = "computeInitialValues" /\ last.type = "PER_FACTOR"
  /\ last.arg = FalseExpr
  /\ Len(last.fs) = 2
  /\ last.inner = <<"fail">>
  /\ ~last.ret

\* the arrays some factor of the manager refers to
ReferencedArrays == UNION {calculateArrayReferences(f) : f \in cm.factors}

\* C14: on success values holds one byte vector for each requested array,
\* in the order of objects whatever the order of the factors; the i-th has
\* the size of the i-th array, holds the bytes found for that array, and is
\* all zeros when no factor refers to the array.
C14_ValuesInObjectOrder ==
  (last.op = "computeInitialValues" /\ cm.status = "ok" /\ last.ret
   /\ last.hasSolution) =>
    /\ Len(last.values) = Len(last.objects)
    /\ \A i \in 1 .. Len(last.objects) :
         /\ Len(last.values[i]) = ArraySize
         /\ last.objects[i] \in DOMAIN last.retMap =>
              last.values[i] = last.retMap[last.objects[i]]
         /\ last.objects[i] \notin ReferencedArrays =>
              last.values[i] = [j \in 1 .. ArraySize |-> 0]

\* C14 witness: a successful call for a and b, the factor of b solved before
\* the factor of a, with different bytes found for the two arrays and none
\* for an array no factor refers to
C14_Witness ==
  /\ last.op = "computeInitialValues" /\ cm.status = "ok" /\ last.ret
  /\ last.hasSolution
  /\ last.objects = <<"a", "b">>
  /\ Len(last.fs) = 2
  /\ calculateArrayReferences(last.fs[1]) = {"b"}
  /\ Len(last.inner) = 2
  /\ last.values[1] # last.values[2]


\* the other variant of computeInitialValues run on the input of the last
\* call: the same manager, query, objects, factor order and inner solver
OtherMode ==
  computeInitialValues(
    IF last.type = "PER_FACTOR" THEN "BATCH" ELSE "PER_FACTOR",
    [cm EXCEPT !.status = "ok"], last.arg, last.objects, last.fs,
    last.answers)

\* the result of the last call
LastResult ==
  [status |-> cm.status, ret |-> last.ret, hasSolution |-> last.hasSolution,
   values |-> last.values, retMap |-> last.retMap]

\* the result r of a computeInitialValues on the input of the last call
\* reports a solution
ReportsSolution(r) == r.status = "ok" /\ r.ret /\ r.hasSolution

\* every constraint and the negated query evaluate to constant true under
\* the assignment the result r returned
SatisfiesQuery(r) ==
  LET assign == Assignment(last.objects, r.values, r.retMap)
  IN \A e \in VerifiedExprs : evaluate(assign, e) = TrueExpr

\* the two variants agree on whether the call returns, on the value
\* returned and on hasSolution
SameVerdict(r) ==
  /\ r.status = cm.status
  /\ r.ret = last.ret
  /\ r.hasSolution = last.hasSolution

\* C15: with an inner solver that does not fail, per-factor mode and batched
\* mode agree on success and on hasSolution, and when both report a solution
\* each of the two assignments satisfies every constraint and the negated
\* query.
C15_ModesAgree ==
  (last.op = "computeInitialValues"
   /\ \A i \in 1 .. Len(last.answers) : last.answers[i] # "fail") =>
    /\ SameVerdict(OtherMode)
    /\ (ReportsSolution(LastResult) /\ ReportsSolution(OtherMode)) =>
         (SatisfiesQuery(LastResult) /\ SatisfiesQuery(OtherMode))


\* the last call is a decision query (validity, truth or value) that
\* returned
DecisionQuery ==
  /\ Returned
  /\ last.op \in {"computeValidity", "computeTruth", "computeValue"}

\* the factors of the partition that intersect the footprint of the query
\* expression of the last call
Consulted ==
  {f \in cm.factors : intersects(IndependentElementSet(last.arg), f)}

RECURSIVE SeqToBag(_)
SeqToBag(q) ==
  IF q = <<>> THEN EmptyBag ELSE SetToBag({Head(q)}) (+) SeqToBag(Tail(q))

\* C16 as stated: for every decision query against a reachable manager at
\* most one factor of the partition intersects the query footprint.
C16_AtMostOneFactor == DecisionQuery => Cardinality(Consulted) <= 1

\* C16 amended: the filter ships the expressions of exactly the factors
\* that intersect the query footprint, and these may be several.
C16_FilterTakesIntersecting ==
  DecisionQuery => SeqToBag(last.required) = BagUnion({f.exprs : f \in Consulted})

\* C16 witness: a query that reads a byte of each of two factors got the
\* constraints of both
C16_Witness ==
  /\ DecisionQuery
  /\ last.arg = UltExpr_create(a1, b1)
  /\ Cardinality(Consulted) = 2
  /\ Len(last.required) = 2


\* scenario S2: the manager after Read(a,0) == Read(b,0) was added to the
\* empty manager, both options enabled, and the step that adds
\* Read(a,0) == 1 to it
S2_First == EqExpr_create(a0, b0)
S2_Second == EqExpr_create(Byte(1), a0)
S2_Rewritten == EqExpr_create(Byte(1), b0)

S2_Step ==
  /\ RewriteEqualities /\ UseIndependentSolver
  /\ cm = addConstraint(EmptyConstraintManager, S2_First, "segv").cm
  /\ AddStep
  /\ last'.arg = S2_Second

\* the first constraint has been replaced by Read(b,0) == 1 and the sequence
\* holds both Read(b,0) == 1 and Read(a,0) == 1
S2_Constraints ==
  /\ cm'.status = "ok" /\ last'.ret
  /\ S2_First \notin SeqToSet(cm'.constraints)
  /\ SeqToSet(cm'.constraints) = {S2_Rewritten, S2_Second}

\* the footprints of the factors of the manager m
Footprints(m) ==
  {[elements |-> f.elements, wholeObjects |-> f.wholeObjects] : f \in m.factors}

\* C17 as stated: after the two calls the sequence holds Read(b,0) == 1 and
\* Read(a,0) == 1 and the partition is one factor with the footprint
\* {a: {0}, b: {0}}.
C17_S2_OneFactor ==
  [][S2_Step =>
       /\ S2_Constraints
       /\ Cardinality(cm'.factors) = 1
       /\ Footprints(cm') =
            {[elements |-> [arr \in {"a", "b"} |-> {0}], wholeObjects |-> {}]}]_vars

\* C17 amended: the sequence is as stated, and the partition consists of two
\* factors, one with the footprint {a: {0}} that holds Read(a,0) == 1 and
\* one with the footprint {b: {0}} that holds Read(b,0) == 1.
C17_S2_TwoFactors ==
  [][S2_Step =>
       /\ S2_Constraints
       /\ cm'.factors =
            {[elements |-> [arr \in {"a"} |-> {0}], wholeObjects |-> {},
              exprs |-> SetToBag({S2_Second})],
             [elements |-> [arr \in {"b"} |-> {0}], wholeObjects |-> {},
              exprs |-> SetToBag({S2_Rewritten})]}]_vars

\* C17 witness: the state after the two calls of the scenario
C17_Witness ==
  /\ RewriteEqualities /\ UseIndependentSolver /\ Returned
  /\ calls = 2
  /\ last.op = "addConstraint" /\ last.arg = S2_Second /\ last.ret
  /\ cm.constraints = <<S2_Rewritten, S2_Second>>
  /\ cm.equalities = (b0 :> Byte(1)) @@ (a0 :> Byte(1))


\* the conjuncts of e as addConstraintInternal splits them
RECURSIVE Conjuncts(_)
Conjuncts(e) ==
  IF e.kind = "And" THEN Conjuncts(e.kids[1]) \cup Conjuncts(e.kids[2])
  ELSE {e}

\* e is an Eq(const, rhs) that addConstraintInternal rewrites with
RewritingEq(e) ==
  e.kind = "Eq" /\ isConstant(e.kids[1]) /\ e.kids[2].kind # "Eq"

\* replacing rhs by const, for the equality eq = Eq(const, rhs), changes c
Changes(eq, c) ==
  visit(ExprReplaceVisitor(eq.kids[2], eq.kids[1]),
        [visitedUN |-> <<>>, replacedUN |-> {}], c).e # c

\* the sequence p is a prefix of the sequence q
IsPrefix(p, q) == Len(p) <= Len(q) /\ SubSeq(q, 1, Len(p)) = p

\* the elements of p occur in q in the order they have in p
RECURSIVE IsSubsequence(_, _)
IsSubsequence(p, q) ==
  IF p = <<>> THEN TRUE
  ELSE IF q = <<>> THEN FALSE
  ELSE IF Head(p) = Head(q) THEN IsSubsequence(Tail(p), Tail(q))
  ELSE IsSubsequence(p, Tail(q))

\* the equalities a call with argument e rewrites with: the rewriting
\* conjuncts of the simplified argument and of the constraints of the new
\* sequence that were not held before
EqualitiesOf(e, old, new) ==
  {eq \in Conjuncts(simplifyExpr(cm, e).e)
          \cup (SeqToSet(new) \ SeqToSet(old)) : RewritingEq(eq)}

\* C19: a constraint held before an addConstraint call is absent after it
\* only if equality rewriting is enabled, the simplified argument has an
\* Eq(const, rhs) conjunct, and replacing the right-hand side of an equality
\* of the call changes it; the constraints that remain keep
\* their relative order, and with rewriting disabled the old sequence is a
\* prefix of the new one.
C19_ShrinksOnlyByRewrite ==
  [][(AddStep /\ Returned /\ cm'.status = "ok") =>
       LET old == cm.constraints
           new == cm'.constraints
           eqs == EqualitiesOf(last'.arg, old, new)
       IN /\ \A c \in SeqToSet(old) \ SeqToSet(new) :
               /\ RewriteEqualities
               /\ \E eq \in Conjuncts(simplifyExpr(cm, last'.arg).e) :
                     RewritingEq(eq)
               /\ \E eq \in eqs : Changes(eq, c)
          /\ IsSubsequence(SelectSeq(old, LAMBDA c : c \in SeqToSet(new)), new)
          /\ ~RewriteEqualities => IsPrefix(old, new)]_vars

\* C19 witness: a call has rewritten one held constraint and left another
\* one in place
C19_Witness ==
  /\ RewriteEqualities /\ Returned
  /\ last.op = "addConstraint" /\ last.arg = EqExpr_create(Byte(1), a0)
  /\ last.ret
  /\ UltExpr_create(b1, Byte(2)) \in SeqToSet(cm.constraints)
  /\ UltExpr_create(Byte(1), b0) \in SeqToSet(cm.constraints)

\* m and n have the same constraint sequence and the same factors
\* (footprints and expression lists)
SameConstraintsAndFactors(m, n) ==
  m.constraints = n.constraints /\ m.factors = n.factors

\* C18: once the manager is copied, an addConstraint call on the copy
\* leaves the constraint sequence and the factors of the original as they
\* were, and a call on the original leaves those of the copy as they were.
C18_CopyIsIndependent ==
  [][(copy.made /\ calls' = calls + 1) =>
       /\ last'.op = "copy.addConstraint" =>
            SameConstraintsAndFactors(cm, cm')
       /\ last'.op = "addConstraint" =>
            SameConstraintsAndFactors(copy.cm, copy'.cm)]_vars

\* C18 witness: the original and the copy hold one constraint in common
\* and each has added one of its own after the branch; the copy has merged
\* its own into the factor of the common one, the original has not
C18_Witness ==
  /\ copy.made /\ UseIndependentSolver
  /\ cm.status = "ok" /\ copy.cm.status = "ok"
  /\ cm.constraints =
       <<UltExpr_create(b1, Byte(2)), UltExpr_create(a0, b0)>>
  /\ copy.cm.constraints =
       <<UltExpr_create(b1, Byte(2)), UltExpr_create(a1, b1)>>
  /\ Cardinality(cm.factors) = 2
  /\ Cardinality(copy.cm.factors) = 1

\* C20: an operation clears the two caches exactly when it takes the number
\* of live holders from one to zero; the caches are then empty, and while
\* a holder stays alive no cached pair is dropped.
C20_ClearedWhenLastHolderDies ==
  [][/\ compareCache'.cleared <=>
          (compareCache.holders = 1 /\ compareCache'.holders = 0)
     /\ compareCache'.cleared =>
          compareCache'.equivs = {} /\ compareCache'.UNequivs = {}
     /\ compareCache'.holders >= 1 =>
          /\ compareCache.equivs \subseteq compareCache'.equivs
          /\ compareCache.UNequivs \subseteq compareCache'.UNequivs]_vars

\* C20 witness: the last holder has just been destroyed and the caches
\* have been cleared
C20_Witness ==
  /\ compareCache.cleared
  /\ compareCache.holders = 0
  /\ compareCache.CompareCacheSemaphore = 0


\* C21: a simplifyExpr call returns what a traversal that starts with an
\* empty update-node replacement cache returns: no replacement computed by
\* an earlier traversal, under an earlier equalities map or another src/dst
\* pair, reaches its result.
C21_ReplacementCachePerTraversal ==
  [][(Returned /\ calls' = calls + 1 /\ last'.op = "simplifyExpr") =>
       last'.res =
         simplifyExpr([cm EXCEPT !.visitedUN = <<>>], last'.arg).e]_vars


\* C22: every constraint that updateDelete finds queued for deletion has a
\* representative entry that points to a held factor, so no addConstraint
\* call ends in the dereference of a null factor pointer.
C22_DeletedConstraintsHaveFactors == cm.status # "segv"


\* the equalities map m.equalities holds rhs -> const for every held
\* Eq(const, rhs), c -> true for every other held constraint c, and
\* nothing else
MirrorsConstraints(m) ==
  /\ \A c \in SeqToSet(m.constraints) :
       /\ equalityKey(c) \in DOMAIN m.equalities
       /\ m.equalities[equalityKey(c)] = equalityValue(c)
  /\ \A k \in DOMAIN m.equalities :
       \E c \in SeqToSet(m.constraints) : equalityKey(c) = k

\* C23: after every addConstraint call that returns, the equalities map
\* mirrors the constraint sequence.
C23_EqualitiesMirrorConstraints ==
  (Returned /\ last.op = "addConstraint") => MirrorsConstraints(cm)


\* the expressions the original and its copy are compared on: the inputs,
\* the held constraints and their negations
CopyProbes ==
  BranchInputs \cup SeqToSet(cm.constraints)
    \cup {NotExpr_create(c) : c \in SeqToSet(cm.constraints)}

\* C24: right after the copy is made it carries the equalities map of the
\* original: simplifyExpr gives the same result on both, and addConstraint
\* returns false on the copy exactly when it does on the original.
C24_CopyCarriesEqualities ==
  [][(last'.op = "branch" /\ ~copy.made /\ copy'.made) =>
       /\ copy'.cm.equalities = cm.equalities
       /\ \A e \in CopyProbes :
            /\ simplifyExpr(copy'.cm, e).e = simplifyExpr(cm, e).e
            /\ addConstraint(copy'.cm, e, "segv").ret
                 = addConstraint(cm, e, "segv").ret]_vars


\* the factors the last per-factor call submitted to the inner solver, one
\* query each
SubmittedFactors ==
  getAllIndependentConstraintsSets(last.arg, last.fs).result

\* C25: a per-factor call that ran to its end has submitted every held
\* constraint and the negated query expression to the inner solver, each
\* in exactly one factor query.
C25_FactorQueriesCoverQuery ==
  (/\ Returned /\ last.op = "computeInitialValues"
   /\ last.type = "PER_FACTOR" /\ ~isConstant(last.arg)
   /\ last.ret /\ last.hasSolution) =>
    \A e \in VerifiedExprs :
      Cardinality({i \in DOMAIN SubmittedFactors :
                     BagIn(e, SubmittedFactors[i].exprs)}) = 1


\* the sub-expressions of e, e itself and those in update lists included
RECURSIVE SubExprs(_)
RECURSIVE SubExprsUL(_)
SubExprsUL(ul) ==
  IF ul = <<>> THEN {}
  ELSE SubExprs(Head(ul).index) \cup SubExprs(Head(ul).value)
       \cup SubExprsUL(Tail(ul))

SubExprs(e) ==
  {e} \cup SubExprsUL(e.updates)
      \cup UNION {SubExprs(e.kids[i]) : i \in 1 .. Len(e.kids)}

\* the held equalities Eq(const, rhs), rhs not an Eq, whose mapping
\* rhs -> const the step has recorded
RecordedEqualities ==
  {c \in SeqToSet(cm'.constraints) :
     /\ RewritingEq(c)
     /\ c.kids[2] \notin DOMAIN cm.equalities
     /\ c.kids[2] \in DOMAIN cm'.equalities}

\* C26: with rewrite-equalities enabled, after an addConstraint call that
\* records rhs -> const for an Eq(const, rhs), no held constraint other
\* than that equality contains rhs as a sub-expression.
C26_RecordedRhsRewrittenAway ==
  [][(AddStep /\ Returned /\ cm'.status = "ok" /\ RewriteEqualities) =>
       \A c \in RecordedEqualities :
         \A d \in SeqToSet(cm'.constraints) \ {c} :
           c.kids[2] \notin SubExprs(d)]_vars


\* the footprints of the constraints c and d intersect
Touches(c, d) == intersects(IndependentElementSet(c), IndependentElementSet(d))

\* the constraints of R connected to one of S by a chain of intersecting
\* footprints
RECURSIVE Connected(_, _)
Connected(S, R) ==
  LET n == S \cup {d \in R : \E c \in S : Touches(c, d)}
  IN IF n = S THEN S ELSE Connected(n, R)

\* the connected components of the constraints R under footprint
\* intersection
Components(R) == {Connected({c}, R) : c \in R}

\* the (array, index) pairs the constraints of R read
CellsOf(R) == UNION {CoveredCells(IndependentElementSet(c)) : c \in R}

\* a factor as its expressions and the cells it covers
Shape(f) == [exprs |-> BagToSet(f.exprs), cells |-> CoveredCells(f)]

\* n is m after updateDelete: the factors that hold no deleted constraint
\* are the same, and every other factor is replaced by one factor for each
\* connected component of its remaining constraints
Rebuilt(m, n) ==
  LET del == SeqToSet(m.deleteConstraints)
      touched == {f \in m.factors : BagToSet(f.exprs) \cap del # {}}
  IN /\ \A f \in m.factors \ touched : f \in n.factors
     /\ {Shape(g) : g \in n.factors \ (m.factors \ touched)}
          = UNION {{[exprs |-> C, cells |-> CellsOf(C)] :
                      C \in Components(BagToSet(f.exprs) \ del)}
                   : f \in touched}

\* m, the manager as updateIndependentSet finds it, has constraints to
\* delete, each with a factor, and updateDelete rebuilds their factors
DeletionRebuilds(m) ==
  (/\ m.status = "ok" /\ m.deleteConstraints # <<>>
   /\ \A e \in SeqToSet(m.deleteConstraints) : e \in DOMAIN m.representative)
    => Rebuilt(m, updateDelete(m, "segv"))

\* C27: when an addConstraint call deletes rewritten constraints,
\* updateDelete replaces each factor that held one by the connected
\* components of its remaining constraints under footprint intersection,
\* and leaves the other factors as they were.
C27_DeletionSplitsIntoComponents ==
  [][(/\ AddStep /\ Returned /\ UseIndependentSolver
      /\ last'.arg \notin DOMAIN cm.representative) =>
       DeletionRebuilds(beforeUpdateIndependentSet(cm, last'.arg))]_vars

\* C27 witness: the manager was constructed with a0<a1, a0<b0, a1<2 and
\* b0<2 in one factor; Eq(1, a0) has rewritten the first two, and the
\* last two are now in different factors
C27_Witness ==
  /\ Returned /\ UseIndependentSolver /\ RewriteEqualities
  /\ last.op = "addConstraint" /\ last.arg = EqExpr_create(Byte(1), a0)
  /\ Len(cm.constraints) = Cardinality(Arrays \X Arrays) + 1
  /\ UltExpr_create(a0, a1) \notin SeqToSet(cm.constraints)
  /\ \E f \in cm.factors, g \in cm.factors :
       /\ f # g
       /\ UltExpr_create(a1, Byte(2)) \in BagToSet(f.exprs)
       /\ UltExpr_create(b0, Byte(2)) \in BagToSet(g.exprs)


\* n is m after updateIndependentSet added the one queued constraint c: the
\* factors G that c's footprint intersects are replaced by one factor that
\* covers the cells of c and of G and holds c and the expressions of G;
\* the other factors are the same
Merged(m, n) ==
  LET c == m.addedConstraints[1]
      G == {f \in m.factors : CoveredCells(f) \cap CellsOf({c}) # {}}
  IN \E g \in n.factors :
       /\ n.factors = (m.factors \ G) \cup {g}
       /\ g \notin m.factors \ G
       /\ CoveredCells(g) = CellsOf({c}) \cup UNION {CoveredCells(f) : f \in G}
       /\ BagToSet(g.exprs) = {c} \cup UNION {BagToSet(f.exprs) : f \in G}

\* m, the manager as updateIndependentSet finds it, has one constraint to
\* add and none to delete, and n has it merged
AdditionMerges(m, n) ==
  (/\ m.status = "ok" /\ m.deleteConstraints = <<>>
   /\ Len(m.addedConstraints) = 1) => Merged(m, n)

\* C28: an addConstraint call that adds one constraint c and rewrites none
\* replaces the factors whose footprint c's footprint intersects by one
\* factor with the union of the footprints and of the expression lists (a
\* new factor holding just c when there is none), and leaves every other
\* factor as it was.
C28_AdditionMergesIntersecting ==
  [][(/\ AddStep /\ Returned /\ UseIndependentSolver /\ cm'.status = "ok"
      /\ last'.arg \notin DOMAIN cm.representative) =>
       AdditionMerges(beforeUpdateIndependentSet(cm, last'.arg), cm')]_vars

\* C28 witness: a0<1 and b1<2 were in two factors, and the read of a at a
\* symbolic index through a write of b[0] has merged both into one
C28_Witness ==
  /\ Returned /\ UseIndependentSolver
  /\ last.op = "addConstraint"
  /\ cm.constraints = <<UltExpr_create(a0, Byte(1)),
                        UltExpr_create(b1, Byte(2)),
                        UltExpr_create(ReadThroughUpdate, Byte(2))>>
  /\ Cardinality(cm.factors) = 1


\* the constraints shipped to the inner solver by the last decision query
Shipped == SeqToSet(last.required)

\* C29: for a decision query, every constraint of a factor that covers a
\* cell the query expression reads is shipped to the inner solver, no
\* constraint of any other factor is, and nothing else is shipped.
C29_ShippedAreIntersectingFactors ==
  DecisionQuery =>
    /\ \A f \in cm.factors :
         IF CoveredCells(f) \cap CellsOf({last.arg}) # {}
           THEN BagToSet(f.exprs) \subseteq Shipped
           ELSE BagToSet(f.exprs) \cap Shipped = {}
    /\ Shipped \subseteq UNION {BagToSet(f.exprs) : f \in cm.factors}

\* C29 witness: of two held constraints in two factors, a query that reads
\* a[1] got the one on a[1] and not the one on b[1]
C29_Witness ==
  /\ DecisionQuery
  /\ last.arg = UltExpr_create(a1, Byte(2))
  /\ SeqToSet(cm.constraints)
       = {UltExpr_create(a1, Byte(2)), UltExpr_create(b1, Byte(2))}
  /\ last.required = <<UltExpr_create(a1, Byte(2))>>


\* a call of computeInitialValues that ran to its end with a solution
Solved ==
  /\ Returned /\ last.op = "computeInitialValues"
  /\ last.ret /\ last.hasSolution

\* the inner queries of the last call, each as the factors it is made of:
\* one factor in per-factor mode, one part in batch mode
SubmittedParts ==
  IF last.type = "PER_FACTOR"
    THEN [k \in DOMAIN SubmittedFactors |-> <<SubmittedFactors[k]>>]
    ELSE part_container(sortFactors(SubmittedFactors))

\* the bytes the inner solver answered the k-th query with
AnswerTo(k) ==
  impl_computeInitialValues(partConstraints(SubmittedParts[k]),
                            partArrays(SubmittedParts[k]),
                            answerOf(last.answers, k)).values

\* the indices of arr that the factors of the k-th query reference
RefsOf(k, arr) ==
  UNION {SubmittedParts[k][j].elements[arr] :
           j \in {x \in DOMAIN SubmittedParts[k] :
                    arr \in DOMAIN SubmittedParts[k][x].elements}}

\* the queries that asked for arr
Asked(arr) ==
  {k \in DOMAIN SubmittedParts : arr \in partArrays(SubmittedParts[k])}

\* the query whose answer byte i of arr is taken from: the one that
\* references it, or else the first that asked for arr
Writer(arr, i) ==
  LET refs == {k \in Asked(arr) : i \in RefsOf(k, arr)}
      from == IF refs # {} THEN refs ELSE Asked(arr)
  IN IF refs # {} THEN CHOOSE k \in from : \A x \in from : x <= k
     ELSE CHOOSE k \in from : \A x \in from : k <= x

\* C30 as stated: every byte the running map holds for an array was taken
\* from the answer to a query whose factors reference that byte.
C30_OnlyReferencedBytesWritten ==
  Solved =>
    \A arr \in DOMAIN last.retMap, i \in 0 .. (ArraySize - 1) :
      \E k \in Asked(arr) :
        /\ i \in RefsOf(k, arr)
        /\ last.retMap[arr][i + 1] = AnswerTo(k)[arr][i + 1]

\* C30 amended: the first query that asks for an array supplies all its
\* bytes; a later query replaces only the bytes its own factors reference.
C30_LaterFactorsWriteOwnBytes ==
  Solved =>
    /\ DOMAIN last.retMap = {arr \in Arrays : Asked(arr) # {}}
    /\ \A arr \in DOMAIN last.retMap, i \in 0 .. (ArraySize - 1) :
         last.retMap[arr][i + 1] = AnswerTo(Writer(arr, i))[arr][i + 1]

\* C30 witness: two queries asked for the array a, and the map holds for
\* a neither the whole answer to the first nor the whole answer to the
\* second
C30_Witness ==
  /\ Solved
  /\ Cardinality(Asked("a")) = Cardinality(BOOLEAN)
  /\ \A k \in Asked("a") : last.retMap["a"] # AnswerTo(k)["a"]


\* the indices of arr in the footprint of the factor f: those it reads, all
\* of them when it references arr as a whole object
Footprint(f, arr) ==
  (IF arr \in f.wholeObjects THEN 0 .. (ArraySize - 1) ELSE {})
  \cup (IF arr \in DOMAIN f.elements THEN f.elements[arr] ELSE {})

\* C31: on success every byte in the footprint of a submitted factor is the
\* byte the inner solver answered the query containing that factor with,
\* whatever the order in which the factors were processed.
C31_FootprintBytesKept ==
  Solved =>
    \A k \in DOMAIN SubmittedParts : \A j \in DOMAIN SubmittedParts[k] :
      \A arr \in calculateArrayReferences(SubmittedParts[k][j]) :
        \A i \in Footprint(SubmittedParts[k][j], arr) :
          /\ arr \in DOMAIN last.retMap
          /\ last.retMap[arr][i + 1] = AnswerTo(k)[arr][i + 1]

\* C31 witness: two queries asked for the array a and answered a
\* differently; a factor of the later one has a footprint in a
C31_Witness ==
  /\ Solved
  /\ \E k \in Asked("a") : \E x \in Asked("a") :
       /\ x < k
       /\ AnswerTo(x)["a"] # AnswerTo(k)["a"]
       /\ \E j \in DOMAIN SubmittedParts[k] :
            Footprint(SubmittedParts[k][j], "a") # {}

\* C31 witness for a whole-object reference: a factor that references a
\* as a whole object was submitted with another factor
C31_WholeObjectWitness ==
  /\ Solved
  /\ Len(last.inner) > 1
  /\ \E k \in DOMAIN SubmittedParts : \E j \in DOMAIN SubmittedParts[k] :
       "a" \in SubmittedParts[k][j].wholeObjects


\* C37: whenever a call of addConstraint can begin, the scratch lists old,
\* addedConstraints and deleteConstraints are empty, so the assertions at
\* its entry do not fire.
C37_ScratchListsEmpty ==
  cm.status = "ok" =>
    /\ cm.old = <<>>
    /\ cm.addedConstraints = <<>>
    /\ cm.deleteConstraints = <<>>

\* C37 witness: with the independent solver disabled, the last call
\* rewrote a held constraint (a[0] = b[0] became 1 = b[0]) and returned
C37_Witness ==
  /\ Returned /\ last.op = "addConstraint" /\ last.ret
  /\ ~UseIndependentSolver
  /\ last.arg = EqExpr_create(Byte(1), a0)
  /\ EqExpr_create(Byte(1), b0) \in SeqToSet(cm.constraints)
  /\ cm.status = "ok"

\* C37 witness: the last call returned false and another call can begin
C37_WitnessFalse ==
  /\ Returned /\ last.op = "addConstraint" /\ ~last.ret
  /\ cm.status = "ok"
  /\ cm.constraints # <<>>


\* the number of expressions of the factors of one batch
RECURSIVE ExprCount(_)
ExprCount(part) ==
  IF part = <<>> THEN 0
  ELSE BagCardinality(Head(part).exprs) + ExprCount(Tail(part))

\* the batches one after the other
RECURSIVE Flatten(_)
Flatten(parts) ==
  IF parts = <<>> THEN <<>> ELSE Head(parts) \o Flatten(Tail(parts))

\* the factors fs in the order sorted and in the batches parts: sorted is
\* fs in ascending order of expression count, the batches are made of
\* consecutive factors of sorted, each factor in one batch, none empty
PackedInOrder(fs, sorted, parts) ==
  /\ Len(sorted) = Len(fs)
  /\ \A f \in SeqToSet(fs) :
       Cardinality({k \in DOMAIN fs : fs[k] = f})
         = Cardinality({k \in DOMAIN sorted : sorted[k] = f})
  /\ \A k \in 1 .. (Len(sorted) - 1) :
       BagCardinality(sorted[k].exprs) <= BagCardinality(sorted[k + 1].exprs)
  /\ Flatten(parts) = sorted
  /\ \A k \in DOMAIN parts : parts[k] # <<>>

\* a call of computeInitialValues in batch mode that ran to its end with a
\* solution: every batch was submitted
SolvedInBatches ==
  /\ Solved /\ last.type = "BATCH"
  /\ Len(last.inner) = Len(SubmittedParts)

\* C32: in batch mode the factors are taken in ascending order of
\* expression count and packed consecutively into batches, each factor in
\* exactly one batch, and no batch holds more than expr-num-threshold
\* expressions.
C32_BatchesWithinThreshold ==
  SolvedInBatches =>
    /\ PackedInOrder(SubmittedFactors, sortFactors(SubmittedFactors),
                     SubmittedParts)
    /\ \A k \in DOMAIN SubmittedParts :
         ExprCount(SubmittedParts[k]) <= ExprNumThreshold

\* C32 as the code has it: packed in ascending order as above, and a batch
\* is closed once it holds expr-num-threshold expressions or more; a
\* batch without its last factor holds fewer, and every batch but the last
\* holds that many
C32_BatchesClosedAtThreshold ==
  (Returned /\ last.op = "computeInitialValues" /\ last.type = "BATCH") =>
    /\ PackedInOrder(SubmittedFactors, sortFactors(SubmittedFactors),
                     SubmittedParts)
    /\ \A k \in DOMAIN SubmittedParts :
         /\ ExprCount(SubSeq(SubmittedParts[k], 1,
                             Len(SubmittedParts[k]) - 1)) < ExprNumThreshold
         /\ k < Len(SubmittedParts) =>
              ExprCount(SubmittedParts[k]) >= ExprNumThreshold

\* C32 witness: a batch call whose factors were not in ascending order
\* submitted a batch of two factors which holds more expressions than the
\* threshold
C32_Witness ==
  /\ SolvedInBatches
  /\ SubmittedFactors # sortFactors(SubmittedFactors)
  /\ \E k \in DOMAIN SubmittedParts :
       /\ Len(SubmittedParts[k]) > 1
       /\ ExprCount(SubmittedParts[k]) > ExprNumThreshold

\* C32 witness: a batch call that submitted two batches, the first of two
\* factors
C32_WitnessTwoBatches ==
  /\ SolvedInBatches
  /\ Len(SubmittedParts) > 1
  /\ Len(SubmittedParts[1]) > 1

\* C33: with max-time set, once that span has elapsed during run the halt
\* timer fires and the loop of run stops: run eventually returns (or the
\* process ends).
C33_MaxTimeStopsRun ==
  (ex.phase = "running" /\ ex.MaxTime # 0 /\ ex.now >= ex.MaxTime)
    ~> (ex.phase # "running")

\* C34: every operation that sets the core solver timeout (fork, toUnique,
\* executeMemoryOperation, getSymbolicSolution) has reset it to zero when
\* it returns, on every path, so that no later query inherits it.
C34_TimeoutReset ==
  ex.phase \in {"running", "returned"} => ex.timeout = 0

\* C34 witness: fork set the timeout, its query failed and the state was
\* terminated early
C34_Witness ==
  /\ ex.phase = "running" /\ ex.at = "executed"
  /\ ex.i.op = "fork" /\ ex.i.timed /\ ex.i.failed
  /\ ex.i.cur \in SeqToSet(ex.removedStates)

\* C34 witness: a memory operation set the timeout and terminated the
\* state
C34_WitnessMemory ==
  /\ ex.phase = "running" /\ ex.at = "executed"
  /\ ex.i.op = "executeMemoryOperation" /\ ex.i.timed
  /\ ex.i.cur \in SeqToSet(ex.removedStates)

\* C34 witness: getSymbolicSolution set the timeout and returned false
C34_WitnessSolution ==
  /\ ex.phase = "running"
  /\ ex.i.op = "getSymbolicSolution" /\ ex.i.timed /\ ~ex.i.ret

\* C34 witness: toUnique set the timeout
C34_WitnessUnique ==
  /\ ex.phase = "running"
  /\ ex.i.op = "toUnique" /\ ex.i.timed

\* C35: when the query of fork fails at a branch, the state is terminated
\* early with its pc put back to prevPC (the pc before the step), no
\* constraint is added to it, no state is made, fork returns the pair
\* (null, null), and the other states are as they were.
C35_ForkFailure ==
  [][ (ex.at = "loop" /\ ex'.i.op = "fork" /\ ex'.i.failed) =>
        /\ ex'.i.first = NullState /\ ex'.i.second = NullState
        /\ ex'.removedStates = Append(ex.removedStates, ex'.i.cur)
        /\ ex'.es[ex'.i.cur].pc = ex'.es[ex'.i.cur].prevPC
        /\ ex'.es[ex'.i.cur].pc = ex.es[ex'.i.cur].pc
        /\ ex'.es[ex'.i.cur].constraints = ex.es[ex'.i.cur].constraints
        /\ DOMAIN ex'.es = DOMAIN ex.es
        /\ ex'.addedStates = ex.addedStates
        /\ ex'.states = ex.states
        /\ \A o \in (DOMAIN ex.es) \ {ex'.i.cur} : ex'.es[o] = ex.es[o]
    ]_vars

\* C35 witness: the query of fork failed on a state that holds a
\* constraint, while another state is there
C35_Witness ==
  /\ ex.phase = "running" /\ ex.at = "executed"
  /\ ex.i.op = "fork" /\ ex.i.failed
  /\ ex.i.cur \in DOMAIN ex.es
  /\ ex.es[ex.i.cur].constraints.constraints # <<>>
  /\ Cardinality(ex.states) > 1

\* C36: with max-sym-array-size = N > 0 the address of a memory access is
\* made constant if and only if the resolved object is larger than N;
\* with N = 0 it is never made constant for the size.
C36_ConcretizedIffLarger ==
  ex.i.resolved =>
    (ex.i.concretized <=>
       (ex.MaxSymArraySize # 0 /\ ex.i.size > ex.MaxSymArraySize))

\* C38: in fork on an undecided branch, a state pointer that was set to
\* null because the constraint could not be added is not accessed before
\* fork returns (the max-depth check reads the depth of a state that is
\* not null).
C38_NoAccessThroughNull ==
  ~ex.i.derefNull

=============================================================================
